---------------------------- MODULE Spec2Model ----------------------------
(***************************************************************************)
(* Lottery assistant: the threshold / rollover tracker (ThresholdAlert),   *)
(* its JSON state file, the buy-signal scorer (BuySignal), the EV model    *)
(* (EVCalculator), the check cycle (LotteryAssistant.check_jackpots), the  *)
(* buy-signal reminders (check_buy_signal_reminders) and the dashboard's   *)
(* background refresh (dashboard.py).                                      *)
(*                                                                         *)
(* Amounts are whole dollars.  Python's None is the value None (-1): every *)
(* number the program stores is >= 0, and every test the code makes on a   *)
(* possibly-None value is written out (IsNone, Truthy).  A timestamp       *)
(* (datetime.now()) is the logical time `now`.                             *)
(***************************************************************************)
EXTENDS Integers, Sequences, FiniteSets, TLC

VARIABLES
    state,    \* state[i]: self.state['games'] of ThresholdAlert instance i
    file,     \* the state file (lottery_state.json)
    now,      \* logical clock behind datetime.now()
    trace,    \* the check_threshold calls made so far: game, observation, alert
    call,     \* the last check_threshold call: its pre-state and outcome
    pc,       \* pc[i]: where instance i is inside a call
    alerts,   \* alerts returned so far: instance, game, time, crossing
    world,    \* the jackpot source: the jackpot it shows now
    cyc,      \* the last check_jackpots cycle
    sig,      \* the last calculate_buy_signal call: its inputs and result
    ev,       \* the calculate_ev calls made: their arguments and outcomes
    ext       \* the last check_threshold call beyond `call`: its
              \* threshold_operator keyword, whether the write of the state
              \* file failed, whether an exception reached the caller

vars == <<state, file, now, trace, call, pc, alerts, world, cyc, sig, ev, ext>>

----------------------------------------------------------------------------
(* Bounds of the model *)

\* check_threshold calls in one behaviour of the sequential tracker
MaxOps == 5

\* check_threshold calls in one behaviour with crashes
MaxCrashOps == 3

\* check_threshold calls in one behaviour of the concurrent processes
MaxConcOps == 3

\* upward crossings of min_threshold by the source's jackpot
MaxCrossings == 2

\* check_threshold calls in one behaviour with a threshold_operator keyword
MaxOperatorOps == 4

\* check_threshold calls in one behaviour of two instances with own games
MaxShareOps == 3

\* check_threshold calls in one behaviour with failing writes
MaxFailOps == 3

----------------------------------------------------------------------------
(* Values *)

None == -1

IsNone(x) == x = None

\* Python truthiness of an Optional number: None and 0 are falsy
Truthy(x) == x # None /\ x # 0

Max(a, b) == IF a >= b THEN a ELSE b

Inst == {"p1", "p2"}

Games == {"lucky_day_lotto_midday", "powerball", "pick_3"}

\* the empty dict {}
EmptyState == [g \in {} |-> 0]

\* game_config.get('min_threshold') of the deployment's config.json
min_threshold_of(g) ==
    CASE g = "lucky_day_lotto_midday" -> 500000
      [] g = "powerball" -> 10000000
      [] OTHER -> None

\* jackpot amounts the source reports for a game
Observations(g) ==
    CASE g = "lucky_day_lotto_midday" -> {0, 300000, 400000, 600000, 700000}
      [] g = "powerball" -> {0, 9000000, 15000000, 20000000}
      [] OTHER -> {0, 500, 600}

----------------------------------------------------------------------------
(* ThresholdAlert *)

\* the defaults _get_game_state creates; previous_jackpot and last_won_date
\* are keys that do not exist yet (None here)
NewGameState ==
    [last_jackpot |-> 0,
     previous_jackpot |-> None,
     last_threshold |-> 0,
     last_alert_time |-> None,
     thresholds_hit |-> << >>,
     active_buy_signal |-> FALSE,
     buy_signal_last_seen |-> None,
     buy_signal_reminder_sent |-> FALSE,
     cycle_start_jackpot |-> None,
     rollover_count |-> 0,
     last_won_date |-> None]

\* _get_game_state: the games dict with an entry for game_id
get_game_state(s, game_id) ==
    IF game_id \in DOMAIN s
    THEN s
    ELSE [g \in DOMAIN s \cup {game_id} |->
             IF g = game_id THEN NewGameState ELSE s[g]]

rollover_increments(game_id) ==
    CASE game_id = "lucky_day_lotto_midday" -> 50000
      [] game_id = "lucky_day_lotto_evening" -> 50000
      [] game_id = "powerball" -> 2000000
      [] game_id = "mega_millions" -> 2000000
      [] OTHER -> 0

reset_thresholds(game_id) ==
    CASE game_id = "lucky_day_lotto_midday" -> 100000
      [] game_id = "lucky_day_lotto_evening" -> 100000
      [] game_id = "powerball" -> 100000000
      [] game_id = "mega_millions" -> 100000000
      [] OTHER -> 0

\* line 172: current_jackpot < last_jackpot * 0.5 is 2 * current < last
jackpot_reset(last_jackpot, current_jackpot, reset_threshold) ==
    /\ last_jackpot > 0
    /\ 2 * current_jackpot < last_jackpot
    /\ current_jackpot <= reset_threshold

\* line 188: max(0, int(jackpot_increase / rollover_increment))
calculated_rollovers(current_jackpot, cycle_start_jackpot, rollover_increment) ==
    Max(0, (current_jackpot - cycle_start_jackpot) \div rollover_increment)

\* lines 158-198: the rollover block, on the game's state gs
update_rollover(gs, game_id, current_jackpot, t) ==
    LET inc == rollover_increments(game_id)
        csj == gs.cycle_start_jackpot
    IN  IF inc > 0
        THEN IF jackpot_reset(gs.last_jackpot, current_jackpot, reset_thresholds(game_id))
             THEN [gs EXCEPT !.rollover_count = 0,
                             !.cycle_start_jackpot = current_jackpot,
                             !.last_won_date = t]
             ELSE IF IsNone(csj)
             THEN [gs EXCEPT !.cycle_start_jackpot = current_jackpot,
                             !.rollover_count = 0]
             ELSE IF Truthy(csj)
             THEN IF current_jackpot >= csj
                  THEN [gs EXCEPT !.rollover_count =
                            calculated_rollovers(current_jackpot, csj, inc)]
                  ELSE [gs EXCEPT !.cycle_start_jackpot = current_jackpot,
                                  !.rollover_count = 0]
             ELSE gs
        ELSE gs

\* track_jackpot without the move of last_jackpot to previous_jackpot
track_jackpot_forgetful(gs, current_jackpot) ==
    [gs EXCEPT !.last_jackpot = current_jackpot]

\* lines 129-136 and 202-209: previous_jackpot / last_jackpot bookkeeping
track_jackpot(gs, current_jackpot) ==
    [gs EXCEPT !.previous_jackpot =
                   IF gs.last_jackpot # current_jackpot
                   THEN gs.last_jackpot ELSE @,
               !.last_jackpot = current_jackpot]

\* threshold_hit without the last_threshold test: every observation at or
\* above the threshold alerts
threshold_hit_unlatched(current_jackpot, game_min_threshold, last_threshold) ==
    IF current_jackpot >= game_min_threshold THEN game_min_threshold ELSE None

\* lines 225-230: the threshold that was hit, or None
threshold_hit(current_jackpot, game_min_threshold, last_threshold) ==
    IF current_jackpot >= game_min_threshold /\ last_threshold = 0
    THEN game_min_threshold
    ELSE None

\* lines 234-249: the state after an alert
record_alert(gs, hit, current_jackpot, t) ==
    [gs EXCEPT !.last_threshold = hit,
               !.last_alert_time = t,
               !.thresholds_hit = Append(@, [threshold |-> hit,
                                              jackpot |-> current_jackpot,
                                              timestamp |-> t])]

\* below_threshold without the reset: last_threshold survives a drop below
\* the threshold
below_threshold_kept(gs, last_threshold) == gs

\* lines 216-219: below the threshold, a set last_threshold goes back to 0
below_threshold(gs, last_threshold) ==
    IF last_threshold > 0 THEN [gs EXCEPT !.last_threshold = 0] ELSE gs

\* lines 217-221: the return below the threshold saves only after that reset
saves_below_threshold(last_threshold) == last_threshold > 0

\* check_threshold on the game's state gs (after _get_game_state):
\*   gs    the game's state when the call returns
\*   alert <<alert_info>> or << >> (None)
\*   save  whether _save_state ran
check_threshold(gs, game_id, current_jackpot, game_min_threshold, t) ==
    IF IsNone(game_min_threshold)
    THEN [gs |-> track_jackpot(gs, current_jackpot), alert |-> << >>, save |-> TRUE]
    ELSE LET last_jackpot == gs.last_jackpot
             last_threshold == gs.last_threshold
             g1 == track_jackpot(update_rollover(gs, game_id, current_jackpot, t),
                                 current_jackpot)
             hit == threshold_hit(current_jackpot, game_min_threshold, last_threshold)
         IN  IF current_jackpot < game_min_threshold
             THEN [gs |-> below_threshold(g1, last_threshold),
                   alert |-> << >>,
                   save |-> saves_below_threshold(last_threshold)]
             ELSE IF Truthy(hit)
             THEN [gs |-> record_alert(g1, hit, current_jackpot, t),
                   alert |-> <<[game_id |-> game_id,
                                current_jackpot |-> current_jackpot,
                                threshold |-> hit,
                                previous_jackpot |-> last_jackpot,
                                timestamp |-> t]>>,
                   save |-> TRUE]
             ELSE [gs |-> g1, alert |-> << >>, save |-> TRUE]

----------------------------------------------------------------------------
(* The state file *)

FileAbsent == [kind |-> "absent", games |-> EmptyState]

\* what open(state_file, 'w') leaves before json.dump has written: an empty
\* (or, after part of the dump, a cut-off) file, which json.load rejects
FileTruncated == [kind |-> "truncated", games |-> EmptyState]

\* a completed json.dump(self.state): numbers, strings, booleans, None and
\* lists of those come back from json.load as they went in
FileOf(s) == [kind |-> "json", games |-> s]

\* _load_state: {} when the file is missing or json.load raises
load_state(f) == IF f.kind = "json" THEN f.games ELSE EmptyState

----------------------------------------------------------------------------
(* The sequential tracker: one instance, one game's observations *)

NoCall ==
    [inst |-> "p1", game_id |-> "pick_3", current_jackpot |-> 0,
     min_threshold |-> None, had_entry |-> FALSE, pre |-> NewGameState,
     post |-> NewGameState, alert |-> << >>, save |-> FALSE,
     file_before |-> FileAbsent, t |-> 0, made |-> FALSE]

\* no check_jackpots cycle has run
NoCycle ==
    [made |-> FALSE, n |-> 0, jackpots |-> EmptyState, before |-> EmptyState,
     after |-> EmptyState, file_before |-> FileAbsent, file_after |-> FileAbsent,
     sent |-> {}, results |-> {}, raised |-> FALSE, error |-> "none",
     failed |-> "none", odds |-> EmptyState, scored |-> {}]

NoSignal ==
    [made |-> FALSE]

\* no calculate_ev call has been made
NoEV ==
    [made |-> FALSE]

\* a check_threshold call with the default threshold_operator, whose write
\* succeeded and which raised nothing
NoExt ==
    [threshold_operator |-> ">=", write_failed |-> FALSE, raised |-> FALSE]

\* the game the jackpot source is followed for in the concurrent runs
WorldGame == "lucky_day_lotto_midday"

\* the jackpots the source shows for it, on both sides of its min_threshold
WorldJackpots == {400000, 600000, 700000}

\* the source's jackpot, and how often it has risen across min_threshold
World0 == [game_id |-> WorldGame, jackpot |-> 400000, crossing |-> 0]

InitTracker ==
    /\ state = [i \in Inst |-> EmptyState]
    /\ file = FileAbsent
    /\ now = 0
    /\ trace = << >>
    /\ call = NoCall
    /\ pc = [i \in Inst |-> "idle"]
    /\ alerts = {}
    /\ world = World0
    /\ cyc = NoCycle
    /\ sig = NoSignal
    /\ ev = NoEV
    /\ ext = NoExt

\* the in-memory part of one check_threshold call by instance i; r is the
\* outcome of check_threshold on the game's state
CallEffect(i, game_id, current_jackpot) ==
    LET s0 == get_game_state(state[i], game_id)
        m == min_threshold_of(game_id)
        r == check_threshold(s0[game_id], game_id, current_jackpot, m, now)
        s1 == [s0 EXCEPT ![game_id] = r.gs]
    IN  /\ state' = [state EXCEPT ![i] = s1]
        /\ now' = now + 1
        /\ trace' = Append(trace, [game_id |-> game_id,
                                   current_jackpot |-> current_jackpot,
                                   alerted |-> r.alert # << >>])
        /\ call' = [inst |-> i, game_id |-> game_id,
                    current_jackpot |-> current_jackpot,
                    min_threshold |-> m,
                    had_entry |-> game_id \in DOMAIN state[i],
                    pre |-> s0[game_id], post |-> r.gs,
                    alert |-> r.alert, save |-> r.save,
                    file_before |-> file, t |-> now, made |-> TRUE]
        /\ alerts' = IF r.alert # << >>
                     THEN alerts \cup {[inst |-> i, game_id |-> game_id, t |-> now,
                                        crossing |-> world.crossing]}
                     ELSE alerts

\* _save_state as one step: open(state_file, 'w') and json.dump(self.state)
save_state(s) == FileOf(s)

\* one whole check_threshold call by instance i, its _save_state included
DoCheckThreshold(i, game_id, current_jackpot) ==
    /\ CallEffect(i, game_id, current_jackpot)
    /\ file' = IF call'.save THEN save_state(state'[i]) ELSE file

\* the observations of one behaviour are one game's
SameGame(game_id) == \A k \in DOMAIN trace : trace[k].game_id = game_id

CheckThreshold ==
    \E game_id \in Games : \E current_jackpot \in Observations(game_id) :
        /\ Len(trace) < MaxOps
        /\ SameGame(game_id)
        /\ DoCheckThreshold("p1", game_id, current_jackpot)
        /\ UNCHANGED <<pc, world, cyc, sig, ev, ext>>

\* the process ends and a new one constructs ThresholdAlert: __init__ loads
\* the file
Restart ==
    /\ state["p1"] # load_state(file)
    /\ state' = [state EXCEPT !["p1"] = load_state(file)]
    /\ UNCHANGED <<file, now, trace, call, pc, alerts, world, cyc, sig, ev, ext>>

Next == CheckThreshold \/ Restart

Spec == InitTracker /\ [][Next]_vars

----------------------------------------------------------------------------
(* Crashes: one instance, _save_state in its two steps.  pc: idle, open     *)
(* (check_threshold has changed self.state and is about to save), dump      *)
(* (the file is opened for writing, json.dump has not finished), down.      *)

BeginCheck ==
    \E game_id \in Games : \E current_jackpot \in Observations(game_id) :
        /\ pc["p1"] = "idle"
        /\ Len(trace) < MaxCrashOps
        /\ SameGame(game_id)
        /\ CallEffect("p1", game_id, current_jackpot)
        /\ pc' = [pc EXCEPT !["p1"] = IF call'.save THEN "open" ELSE "idle"]
        /\ UNCHANGED <<file, world, cyc, sig, ev, ext>>

\* line 59: open(self.state_file, 'w') empties the file
SaveOpen ==
    /\ pc["p1"] = "open"
    /\ file' = FileTruncated
    /\ pc' = [pc EXCEPT !["p1"] = "dump"]
    /\ UNCHANGED <<state, now, trace, call, alerts, world, cyc, sig, ev, ext>>

\* line 60: json.dump(self.state, f) and the close of the file
SaveDump ==
    /\ pc["p1"] = "dump"
    /\ file' = FileOf(state["p1"])
    /\ pc' = [pc EXCEPT !["p1"] = "idle"]
    /\ UNCHANGED <<state, now, trace, call, alerts, world, cyc, sig, ev, ext>>

\* the process dies; state["p1"] keeps what its memory held, for reference
Crash ==
    /\ pc["p1"] \in {"idle", "open", "dump"}
    /\ call.made
    /\ pc' = [pc EXCEPT !["p1"] = "down"]
    /\ UNCHANGED <<state, file, now, trace, call, alerts, world, cyc, sig, ev, ext>>

\* a new process: ThresholdAlert.__init__ loads the file
Recover ==
    /\ pc["p1"] = "down"
    /\ state' = [state EXCEPT !["p1"] = load_state(file)]
    /\ pc' = [pc EXCEPT !["p1"] = "idle"]
    /\ UNCHANGED <<file, now, trace, call, alerts, world, cyc, sig, ev, ext>>

NextCrash == BeginCheck \/ SaveOpen \/ SaveDump \/ Crash \/ Recover

SpecCrash == InitTracker /\ [][NextCrash]_vars

----------------------------------------------------------------------------
(* Concurrent check cycles: two processes (a dashboard refresh and a        *)
(* scheduled check), each constructing its own ThresholdAlert from the one  *)
(* state file and checking the source's current jackpot.  Nothing in        *)
(* ThresholdAlert or its callers locks the file or the game.                *)

InitConc ==
    /\ state = [i \in Inst |-> EmptyState]
    /\ file = FileAbsent
    /\ now = 0
    /\ trace = << >>
    /\ call = NoCall
    /\ pc = [i \in Inst |-> "new"]
    /\ alerts = {}
    /\ world = World0
    /\ cyc = NoCycle
    /\ sig = NoSignal
    /\ ev = NoEV
    /\ ext = NoExt

\* the jackpot the source shows changes
JackpotMoves ==
    \E v \in WorldJackpots :
        LET m == min_threshold_of(world.game_id)
            up == world.jackpot < m /\ v >= m
        IN  /\ v # world.jackpot
            /\ up => world.crossing < MaxCrossings
            /\ world' = [world EXCEPT !.jackpot = v,
                                      !.crossing = IF up THEN @ + 1 ELSE @]
            /\ UNCHANGED <<state, file, now, trace, call, pc, alerts, cyc, sig, ev, ext>>

\* ThresholdAlert.__init__ : self.state = self._load_state()
Construct(i) ==
    /\ pc[i] = "new"
    /\ state' = [state EXCEPT ![i] = load_state(file)]
    /\ pc' = [pc EXCEPT ![i] = "idle"]
    /\ UNCHANGED <<file, now, trace, call, alerts, world, cyc, sig, ev, ext>>

\* the process's check_threshold call on the jackpot the source shows
ProcCheck(i) ==
    /\ pc[i] = "idle"
    /\ Len(trace) < MaxConcOps
    /\ DoCheckThreshold(i, world.game_id, world.jackpot)
    /\ pc' = [pc EXCEPT ![i] = "done"]
    /\ UNCHANGED <<world, cyc, sig, ev, ext>>

\* the cycle is over; the next refresh or scheduled run builds a new instance
Exit(i) ==
    /\ pc[i] = "done"
    /\ pc' = [pc EXCEPT ![i] = "new"]
    /\ UNCHANGED <<state, file, now, trace, call, alerts, world, cyc, sig, ev, ext>>

NextConc ==
    \/ JackpotMoves
    \/ \E i \in Inst : Construct(i)
    \/ \E i \in Inst : ProcCheck(i)
    \/ \E i \in Inst : Exit(i)

SpecConc == InitConc /\ [][NextConc]_vars

----------------------------------------------------------------------------
(* EVCalculator as the scorer and the check cycle use it: net_ev and        *)
(* ev_percentage as fractions of cents, [n, d] with d > 0, without the     *)
(* rounding of the floats.  calculate_ev in the floats themselves follows  *)
(* below (calculate_ev_float).                                             *)

Rat(n, d) == [n |-> n, d |-> d]

RLt(a, b) == a.n * b.d < b.n * a.d

RGe(a, b) == a.n * b.d >= b.n * a.d

RGt(a, b) == a.n * b.d > b.n * a.d

\* ev_settings defaults: tax_rate 0.37, lump_sum_factor 0.61, in percent
TaxRatePct == 37

LumpSumPct == 61

\* (1 - tax_rate) * lump_sum_factor, in 1/10000
KeepFactor == (100 - TaxRatePct) * LumpSumPct

\* calculate_ev(jackpot, odds, ticket_cost, secondary_prize_ev) for odds > 0:
\* ticket_cost and secondary_prize_ev in cents, net_ev in cents
calculate_ev(jackpot, odds, ticket_cost, secondary_prize_ev) ==
    LET secondary_ev == IF Truthy(secondary_prize_ev) THEN secondary_prize_ev ELSE 0
        \* net_ev = jackpot * keep / odds + secondary_ev - ticket_cost
        net == Rat(jackpot * KeepFactor + (secondary_ev - ticket_cost) * 100 * odds,
                   100 * odds)
    IN  [keys |-> {"net_ev", "ev_percentage", "is_positive_ev"},
         net_ev |-> net,
         ev_percentage |-> IF ticket_cost > 0
                           THEN Rat(net.n, odds * ticket_cost)
                           ELSE Rat(0, 1),
         is_positive_ev |-> net.n > 0]

----------------------------------------------------------------------------
(* Python floats (IEEE 754 binary64) as EVCalculator uses them.  A float   *)
(* is [s, m, e]: sign s in {1, -1}, mantissa m, exponent e, of value       *)
(* s * m * 2^e; zero has the empty mantissa and every other float a        *)
(* mantissa of exactly 53 bits.  A mantissa, and every natural number on   *)
(* the way to one, is the sequence of its digits base 2^14, low digit      *)
(* first, without high zeros.  Each operation is the exact result rounded  *)
(* to nearest, ties to even; the values EVCalculator meets are far from    *)
(* overflow, underflow and the subnormal numbers.                          *)

\* the one element of a set of one element: in The({e : v \in {x}}) the
\* value of x is taken once and v stands for it in e
The(S) == CHOOSE r \in S : TRUE

NB == 2^14

NDigit(a, i) == IF i <= Len(a) THEN a[i] ELSE 0

RECURSIVE NTrimTo(_, _)
NTrimTo(a, n) ==
    IF n = 0 THEN << >>
    ELSE IF a[n] = 0 THEN NTrimTo(a, n - 1)
    ELSE SubSeq(a, 1, n)

NTrim(a) == The({NTrimTo(a1, Len(a1))
                : a1 \in {a}})

RECURSIVE NOfInt(_)
NOfInt(n) == IF n = 0 THEN << >> ELSE <<n % NB>> \o NOfInt(n \div NB)

RECURSIVE NAddFrom(_, _, _, _)
NAddFrom(a, b, i, carry) ==
    IF i > Len(a) /\ i > Len(b)
    THEN IF carry = 0 THEN << >> ELSE <<carry>>
    ELSE The({<<d % NB>> \o NAddFrom(a, b, i + 1, d \div NB)
             : d \in {NDigit(a, i) + NDigit(b, i) + carry}})

NAdd(a, b) == The({NAddFrom(a1, b1, 1, 0)
                  : a1 \in {a}, b1 \in {b}})

\* a - b for a >= b
RECURSIVE NSubFrom(_, _, _, _)
NSubFrom(a, b, i, borrow) ==
    IF i > Len(a) THEN << >>
    ELSE The({IF d < 0
                         THEN <<d + NB>> \o NSubFrom(a, b, i + 1, 1)
                         ELSE <<d>> \o NSubFrom(a, b, i + 1, 0)
             : d \in {NDigit(a, i) - NDigit(b, i) - borrow}})

NSub(a, b) == The({NTrim(NSubFrom(a1, b1, 1, 0))
                  : a1 \in {a}, b1 \in {b}})

RECURSIVE NCmpFrom(_, _, _)
NCmpFrom(a, b, i) ==
    IF i = 0 THEN 0
    ELSE IF a[i] # b[i] THEN (IF a[i] < b[i] THEN -1 ELSE 1)
    ELSE NCmpFrom(a, b, i - 1)

\* -1, 0 or 1 as a is below, equal to or above b
NCmp(a, b) ==
    The({IF Len(a1) # Len(b1) THEN (IF Len(a1) < Len(b1) THEN -1 ELSE 1)
        ELSE NCmpFrom(a1, b1, Len(a1))
        : a1 \in {a}, b1 \in {b}})

RECURSIVE NMulSmallFrom(_, _, _, _)
NMulSmallFrom(a, k, i, carry) ==
    IF i > Len(a)
    THEN IF carry = 0 THEN << >> ELSE <<carry>>
    ELSE The({<<d % NB>> \o NMulSmallFrom(a, k, i + 1, d \div NB)
             : d \in {a[i] * k + carry}})

\* a * k for a digit k
NMulSmall(a, k) ==
    The({IF k1 = 0 THEN << >> ELSE NMulSmallFrom(a1, k1, 1, 0)
        : a1 \in {a}, k1 \in {k}})

\* a * NB^n
NShiftDigits(a, n) ==
    The({IF a1 = << >> THEN a1 ELSE [i \in 1..n |-> 0] \o a1
        : a1 \in {a}})

RECURSIVE NMulFrom(_, _, _)
NMulFrom(a, b, i) ==
    IF i > Len(b) THEN << >>
    ELSE NAdd(NShiftDigits(NMulSmall(a, b[i]), i - 1), NMulFrom(a, b, i + 1))

NMul(a, b) == The({NMulFrom(a1, b1, 1)
                  : a1 \in {a}, b1 \in {b}})

\* a * 2^n
NShl(a, n) ==
    The({NShiftDigits(NMulSmall(a, 2^(n1 % 14)), n1 \div 14)
        : n1 \in {n}})

RECURSIVE NDivSmallFrom(_, _, _, _)
NDivSmallFrom(a, k, i, rem) ==
    IF i = 0 THEN << >>
    ELSE The({NDivSmallFrom(a, k, i - 1, d % k) \o <<d \div k>>
             : d \in {rem * NB + a[i]}})

\* a \div 2^n
NShr(a, n) ==
    The({The({NTrim(NDivSmallFrom(dropped, 2^(n1 % 14), Len(dropped), 0))
             : dropped \in {IF n1 \div 14 >= Len(a1) THEN << >>
                            ELSE SubSeq(a1, n1 \div 14 + 1, Len(a1))}})
        : a1 \in {a}, n1 \in {n}})

RECURSIVE BitLenSmall(_)
BitLenSmall(k) == IF k = 0 THEN 0 ELSE 1 + BitLenSmall(k \div 2)

NBitLen(a) ==
    The({IF a1 = << >> THEN 0
                        ELSE 14 * (Len(a1) - 1) + BitLenSmall(a1[Len(a1)])
        : a1 \in {a}})

NBit(a, i) == (NDigit(a, i \div 14 + 1) \div 2^(i % 14)) % 2

NIsOdd(a) == NBit(a, 0) = 1

\* the largest digit d in lo..hi with b * d <= r
RECURSIVE NQuoDigit(_, _, _, _)
NQuoDigit(r, b, lo, hi) ==
    IF lo = hi THEN lo
    ELSE The({IF NCmp(NMulSmall(b, mid), r) <= 0
                           THEN NQuoDigit(r, b, mid, hi)
                           ELSE NQuoDigit(r, b, lo, mid - 1)
             : mid \in {(lo + hi + 1) \div 2}})

\* long division, one digit of the quotient per step, high digit first
RECURSIVE NDivFrom(_, _, _)
NDivFrom(r, b, i) ==
    IF i < 0 THEN [q |-> << >>, r |-> r]
    ELSE The({The({The({[q |-> rest.q \o <<d>>, r |-> rest.r]
                       : rest \in {NDivFrom(NSub(r1, NMulSmall(bs, d)), b, i - 1)}})
                  : d \in {NQuoDigit(r1, bs, 0, NB - 1)}})
             : r1 \in {r}, bs \in {NShiftDigits(b, i)}})

\* quotient and remainder of a by b > 0
NDivMod(a, b) ==
    The({The({[q |-> NTrim(d.q), r |-> d.r]
             : d \in {NDivFrom(a1, b1, Len(a1) - Len(b1))}})
        : a1 \in {a}, b1 \in {b}})

MantissaBits == 53

FZero == [s |-> 1, m |-> << >>, e |-> 0]

\* q, the mantissa M without its sh low bits, rounded by what was dropped:
\* up above the half, to even at the half unless sticky says more was lost
FRoundUp(M, q, sh, sticky) ==
    The({IF c > 0 \/ (c = 0 /\ (sticky \/ NIsOdd(q)))
                    THEN NAdd(q, <<1>>)
                    ELSE q
        : c \in {NCmp(NSub(M, NShl(q, sh)), NShl(<<1>>, sh - 1))}})

\* the float nearest to s * M * 2^e
FRound(s, M, e, sticky) ==
    The({The({IF L = 0 THEN FZero
        ELSE IF L <= MantissaBits
        THEN [s |-> s, m |-> NShl(M1, MantissaBits - L),
              e |-> e - (MantissaBits - L)]
        ELSE The({The({IF NBitLen(q2) > MantissaBits
                     THEN [s |-> s, m |-> NShr(q2, 1),
                           e |-> e + (L - MantissaBits) + 1]
                     ELSE [s |-> s, m |-> q2,
                           e |-> e + (L - MantissaBits)]
                      : q2 \in {FRoundUp(M1, q, L - MantissaBits, sticky)}})
                 : q \in {NShr(M1, L - MantissaBits)}})
             : L \in {NBitLen(M1)}})
        : M1 \in {M}})

\* float(n) of an int n
FOfInt(n) ==
    FRound(IF n < 0 THEN -1 ELSE 1, NOfInt(IF n < 0 THEN -n ELSE n), 0, FALSE)

FIsZero(x) == x.m = << >>

FNeg(x) == The({IF FIsZero(x1) THEN x1 ELSE [x1 EXCEPT !.s = -x1.s]
               : x1 \in {x}})

\* x * y
FMul(x, y) ==
    The({IF FIsZero(x1) \/ FIsZero(y1) THEN FZero
        ELSE FRound(x1.s * y1.s, NMul(x1.m, y1.m), x1.e + y1.e, FALSE)
        : x1 \in {x}, y1 \in {y}})

\* x / y for y # 0
FDiv(x, y) ==
    The({IF FIsZero(x1) THEN FZero
        ELSE The({FRound(x1.s * y1.s, d.q, x1.e - y1.e - (MantissaBits + 2),
                        d.r # << >>)
                 : d \in {NDivMod(NShl(x1.m, MantissaBits + 2), y1.m)}})
        : x1 \in {x}, y1 \in {y}})

\* x + y for x = s * X * 2^e and y = t * Y * 2^e
FAddAligned(s, X, t, Y, e) ==
    The({IF s = t THEN FRound(s, NAdd(X, Y), e, FALSE)
        ELSE IF c = 0 THEN FZero
        ELSE IF c > 0 THEN FRound(s, NSub(X, Y), e, FALSE)
        ELSE FRound(t, NSub(Y, X), e, FALSE)
        : c \in {NCmp(X, Y)}})

\* x + y
FAdd(x, y) ==
    The({IF FIsZero(x1) THEN y1
        ELSE IF FIsZero(y1) THEN x1
        ELSE The({The({FAddAligned(x1.s, X, y1.s, Y, e)
                      : X \in {NShl(x1.m, x1.e - e)}, Y \in {NShl(y1.m, y1.e - e)}})
                 : e \in {IF x1.e < y1.e THEN x1.e ELSE y1.e}})
        : x1 \in {x}, y1 \in {y}})

\* x - y
FSub(x, y) == FAdd(x, FNeg(y))

\* x < y
FLt(x, y) == The({~FIsZero(d) /\ d.s = -1
                 : d \in {FSub(x, y)}})

\* x > 0
FGt0(x) == The({~FIsZero(x1) /\ x1.s = 1
               : x1 \in {x}})

\* the float Python reads from the decimal literal n/d, d a power of ten
\* and n of at most 15 digits (the correctly rounded quotient)
FLit(n, d) == FDiv(FOfInt(n), FOfInt(d))

\* the rates calculate_ev multiplies by, as the floats Python reads from
\* 0.37 and 0.61
tax_rate == FLit(TaxRatePct, 100)

lump_sum_factor == FLit(LumpSumPct, 100)

\* a money argument written in cents, as the float of its decimal literal
FCents(cents) == FLit(cents, 100)

\* an after-tax amount that does not depend on the jackpot
after_tax_jackpot_constant(jackpot) == FOfInt(1000000)

\* jackpot * (1 - self.tax_rate) * self.lump_sum_factor
after_tax_jackpot(jackpot) ==
    FMul(FMul(jackpot, FSub(FOfInt(1), tax_rate)), lump_sum_factor)

\* secondary_prize_ev if (self.include_secondary and secondary_prize_ev) else 0
secondary_ev_of(secondary_prize_ev) ==
    IF FIsZero(secondary_prize_ev) THEN FZero ELSE secondary_prize_ev

\* (net_ev / ticket_cost) * 100 if ticket_cost > 0 else 0
ev_percentage_as_fraction(net_ev, ticket_cost) ==
    IF FGt0(ticket_cost) THEN FDiv(net_ev, ticket_cost) ELSE FZero

ev_percentage_of(net_ev, ticket_cost) ==
    IF FGt0(ticket_cost)
    THEN FMul(FDiv(net_ev, ticket_cost), FOfInt(100))
    ELSE FZero

\* (ticket_cost - secondary_ev) * odds / ((1 - tax_rate) * lump_sum_factor)
break_even_jackpot_of(ticket_cost, secondary_ev, odds) ==
    FDiv(FMul(FSub(ticket_cost, secondary_ev), FOfInt(odds)),
         FMul(FSub(FOfInt(1), tax_rate), lump_sum_factor))

\* what a calculate_ev call comes to: the dictionary it returns, or the
\* exception it raises
ZeroDivisionError == [kind |-> "ZeroDivisionError"]

NoOutcome == [kind |-> "none"]

\* calculate_ev(jackpot, odds, ticket_cost, secondary_prize_ev) in floats:
\* jackpot, ticket_cost and secondary_prize_ev are floats, odds is an int
calculate_ev_float(jackpot, odds, ticket_cost, secondary_prize_ev) ==
    IF odds = 0 THEN ZeroDivisionError
    ELSE
    The({The({The({The({The({[kind |-> "result",
         jackpot |-> jackpot,
         after_tax_jackpot |-> after_tax,
         odds |-> odds,
         ticket_cost |-> ticket_cost,
         primary_ev |-> primary_ev,
         secondary_ev |-> secondary_ev,
         total_ev |-> total_ev,
         net_ev |-> net_ev,
         ev_percentage |-> ev_percentage_of(net_ev, ticket_cost),
         break_even_jackpot |->
             break_even_jackpot_of(ticket_cost, secondary_ev, odds),
         is_positive_ev |-> FGt0(net_ev)]
                            : net_ev \in {FSub(total_ev, ticket_cost)}})
                       : total_ev \in {FAdd(primary_ev, secondary_ev)}})
                  : secondary_ev \in {secondary_ev_of(secondary_prize_ev)}})
             : primary_ev \in {FDiv(after_tax, FOfInt(odds))}})
        : after_tax \in {after_tax_jackpot(jackpot)}})

----------------------------------------------------------------------------
(* BuySignal.  Scores are in tenths, buy_score in hundredths. *)

rollover_breakpoints(game_id) ==
    CASE game_id = "mega_millions" -> [p75 |-> 8, p95 |-> 15]
      [] game_id = "powerball" -> [p75 |-> 7, p95 |-> 14]
      [] game_id = "lucky_day_lotto_midday" -> [p75 |-> 3, p95 |-> 6]
      [] game_id = "lucky_day_lotto_evening" -> [p75 |-> 3, p95 |-> 6]
      [] OTHER -> [p75 |-> 5, p95 |-> 10]

get_ev_tier(ev_percentage) ==
    IF RGt(ev_percentage, Rat(-20, 1)) THEN 1
    ELSE IF RGe(ev_percentage, Rat(-40, 1)) THEN 2
    ELSE 3

calculate_rollover_momentum(game_id, rollover_count) ==
    LET bp == rollover_breakpoints(game_id)
    IN  IF rollover_count >= bp.p95 THEN 10
        ELSE IF rollover_count >= bp.p75 THEN 6
        ELSE 2

\* growth_percent > k is (current - previous) * 100 > k * previous
calculate_growth_velocity(current_jackpot, previous_jackpot) ==
    IF previous_jackpot <= 0 THEN 5
    ELSE LET growth == (current_jackpot - previous_jackpot) * 100
         IN  IF growth > 5 * previous_jackpot THEN 10
             ELSE IF growth > 2 * previous_jackpot THEN 6
             ELSE IF growth > 0 THEN 3
             ELSE 0

calculate_composite_score(ev_percentage, momentum_score, growth_score) ==
    LET ev_score == IF RGt(ev_percentage, Rat(-20, 1)) THEN 10
                    ELSE IF RGe(ev_percentage, Rat(-40, 1)) THEN 5
                    ELSE 0
    IN  6 * ev_score + 3 * momentum_score + 1 * growth_score

\* ev_result.get(key, default)
ev_get_net_ev(ev_result, default) ==
    IF "net_ev" \in ev_result.keys THEN ev_result.net_ev ELSE default

ev_get_ev_percentage(ev_result) ==
    IF "ev_percentage" \in ev_result.keys THEN ev_result.ev_percentage ELSE Rat(-999, 1)

ev_get_is_positive_ev(ev_result) ==
    IF "is_positive_ev" \in ev_result.keys THEN ev_result.is_positive_ev ELSE FALSE

\* lines 244-246: the jackpot threshold, from the settings or the game's
\* min_threshold
resolve_jackpot_threshold(setting, cfg_min_threshold) ==
    IF setting = 0 THEN cfg_min_threshold ELSE setting

\* is not None and > 0
configured(threshold) == ~IsNone(threshold) /\ threshold > 0

\* lines 338-341
is_exceptional_event(jackpot_threshold, current_jackpot, rollover_count) ==
    \/ (~IsNone(jackpot_threshold) /\ current_jackpot >= jackpot_threshold * 2)
    \/ rollover_count >= 20

\* enough_criteria without the adaptive count: two met criteria always
enough_criteria_fixed(n_met, available_criteria_count) == n_met >= 2

\* lines 354-355
enough_criteria(n_met, available_criteria_count) ==
    n_met >= (IF available_criteria_count >= 4 THEN 2 ELSE 1)

\* positive_ev_override without the override
positive_ev_override_dropped(has_signal, is_positive_ev) == has_signal

\* lines 358-359: positive EV always shows the signal
positive_ev_override(has_signal, is_positive_ev) ==
    IF is_positive_ev THEN TRUE ELSE has_signal

\* ev_suppression without the suppression: met criteria outweigh a terrible EV
ev_suppression_outvoted(has_signal, ev_is_terrible, exceptional) == has_signal

\* lines 365-366: terrible EV suppresses it unless the event is exceptional
ev_suppression(has_signal, ev_is_terrible, exceptional) ==
    IF ev_is_terrible /\ ~exceptional THEN FALSE ELSE has_signal

\* ev_acceptable_gate without the gate: the adaptive count decides alone
ev_acceptable_gate_open(has_signal, exceptional, ev_is_acceptable, is_positive_ev, n_met) ==
    has_signal

\* lines 370-373: a mediocre EV needs three met criteria
ev_acceptable_gate(has_signal, exceptional, ev_is_acceptable, is_positive_ev, n_met) ==
    IF has_signal /\ ~exceptional /\ ~ev_is_acceptable /\ ~is_positive_ev /\ n_met < 3
    THEN FALSE ELSE has_signal

\* score_class without the band of aggressive signals of medium confidence
score_class_by_signal_class(buy_score) ==
    IF buy_score >= 80 THEN [signal_type |-> "aggressive", confidence |-> "high"]
    ELSE IF buy_score >= 60 THEN [signal_type |-> "basic", confidence |-> "medium"]
    ELSE [signal_type |-> "basic", confidence |-> "low"]

\* lines 390-401
score_class(buy_score) ==
    IF buy_score >= 80 THEN [signal_type |-> "aggressive", confidence |-> "high"]
    ELSE IF buy_score >= 60 THEN [signal_type |-> "aggressive", confidence |-> "medium"]
    ELSE IF buy_score >= 40 THEN [signal_type |-> "basic", confidence |-> "medium"]
    ELSE [signal_type |-> "basic", confidence |-> "low"]

\* event_class without the EV adjustment of the confidence (lines 422-429)
event_class_unadjusted(is_positive_ev, ev_percentage) ==
    [signal_type |-> "event", confidence |-> "high"]

\* lines 411-429
event_class(is_positive_ev, ev_percentage) ==
    [signal_type |-> "event",
     confidence |-> IF is_positive_ev THEN "high"
                    ELSE IF RGe(ev_percentage, Rat(-20, 1)) THEN "medium"
                    ELSE "low"]

\* buy_signal_settings defaults: ev_threshold -0.20 (dollars, here cents),
\* draw_window_hours 24, ev_suppression_threshold -0.50 and
\* ev_acceptable_threshold -0.30 (times 100: percent)
EvThresholdCents == -20

DrawWindowHours == 24

EvSuppressionPct == -50

EvAcceptablePct == -30

\* calculate_buy_signal.  in: game_id, current_jackpot, ev_result,
\* rollover_count, time_to_draw_minutes (None or minutes), previous_jackpot
\* (None or amount), jackpot_threshold and rollover_threshold (the game's
\* entries of buy_signal_settings, 0 when it has none), min_threshold
\* (game_config.get('min_threshold', 0): None for null, 0 for no key)
calculate_buy_signal(in) ==
    LET jackpot_threshold ==
            resolve_jackpot_threshold(in.jackpot_threshold, in.min_threshold)
        rollover_threshold == in.rollover_threshold
        jackpot_met == IF configured(jackpot_threshold)
                       THEN in.current_jackpot >= jackpot_threshold ELSE TRUE
        rollover_met == IF configured(rollover_threshold)
                        THEN in.rollover_count >= rollover_threshold ELSE TRUE
        ev_met == RGe(ev_get_net_ev(in.ev_result, Rat(-99900, 1)),
                      Rat(EvThresholdCents, 1))
        ev_percentage == ev_get_ev_percentage(in.ev_result)
        is_positive_ev == ev_get_is_positive_ev(in.ev_result)
        momentum_score == calculate_rollover_momentum(in.game_id, in.rollover_count)
        prev_jackpot == IF Truthy(in.previous_jackpot)
                        THEN in.previous_jackpot ELSE in.current_jackpot
        growth_score == calculate_growth_velocity(in.current_jackpot, prev_jackpot)
        buy_score == calculate_composite_score(ev_percentage, momentum_score,
                                               growth_score)
        has_draw == ~IsNone(in.time_to_draw_minutes)
        draw_met == IF has_draw
                    THEN in.time_to_draw_minutes <= DrawWindowHours * 60 ELSE TRUE
        criteria_met ==
            (IF jackpot_met /\ configured(jackpot_threshold) THEN {"jackpot"} ELSE {})
            \cup (IF rollover_met /\ configured(rollover_threshold)
                  THEN {"rollover"} ELSE {})
            \cup (IF ev_met THEN {"ev"} ELSE {})
            \cup (IF has_draw /\ draw_met THEN {"draw_window"} ELSE {})
        available_criteria_count ==
            (IF configured(jackpot_threshold) THEN 1 ELSE 0)
            + (IF configured(rollover_threshold) THEN 1 ELSE 0)
            + 1
            + (IF has_draw THEN 1 ELSE 0)
        exceptional == is_exceptional_event(jackpot_threshold, in.current_jackpot,
                                            in.rollover_count)
        ev_is_terrible == RLt(ev_percentage, Rat(EvSuppressionPct, 1))
        ev_is_acceptable == RGe(ev_percentage, Rat(EvAcceptablePct, 1))
        h0 == enough_criteria(Cardinality(criteria_met), available_criteria_count)
        h1 == positive_ev_override(h0, is_positive_ev)
        met1 == IF is_positive_ev THEN criteria_met \cup {"ev"} ELSE criteria_met
        h2 == ev_suppression(h1, ev_is_terrible, exceptional)
        has_signal == ev_acceptable_gate(h2, exceptional, ev_is_acceptable,
                                         is_positive_ev, Cardinality(met1))
        by_score == IF is_positive_ev
                    THEN [signal_type |-> "aggressive", confidence |-> "high"]
                    ELSE score_class(buy_score)
        class == IF exceptional
                 THEN event_class(is_positive_ev, ev_percentage) ELSE by_score
    IN  IF ~has_signal
        THEN [has_signal |-> FALSE, signal_type |-> "None", confidence |-> "None",
              criteria_met |-> met1, buy_score |-> buy_score,
              jackpot_threshold |-> jackpot_threshold]
        ELSE [has_signal |-> TRUE, signal_type |-> class.signal_type,
              confidence |-> class.confidence,
              criteria_met |-> met1, buy_score |-> buy_score,
              jackpot_threshold |-> jackpot_threshold]

----------------------------------------------------------------------------
(* The scorer on its own: inputs drawn at the start, one evaluation.        *)
(* Jackpots and odds are in millions, so that EV is in its real range.      *)

SigGames == {"powerball", "pick_3"}

SigJackpots == {0, 100, 700, 2000}

SigOdds == {292}

SigTicketCosts == {0, 200}

SigSecondary == {0, 15}

SigRollovers == {0, 7, 14, 20}

SigTimes == {None, 30, 2000}

SigJackpotThresholds == {0, 300}

SigMinThresholds == {None, 0, 500}

SigRolloverThresholds == {0, 5}

SigPrevious == {None, 0, 95, 98, 99}

AllKeys == {"net_ev", "ev_percentage", "is_positive_ev"}

\* an EVResult-shaped dict built by hand for a $2 ticket: ev_percentage pct
\* and its net_ev, with the keys ks
RawEV(pct, ks) ==
    [keys |-> ks, net_ev |-> Rat(2 * pct, 1), ev_percentage |-> Rat(pct, 1),
     is_positive_ev |-> pct > 0]

RawEVResults ==
    {RawEV(pct, AllKeys) : pct \in {-60, -50, -35, -30, -25, -20, -5}}
    \cup {RawEV(25, ks) : ks \in {AllKeys \ {k} : k \in AllKeys} \cup {{}}}

\* the EV passed in: computed by calculate_ev from the current jackpot, or a
\* hand-built dict
EVResultsFor(jackpot) ==
    {[src |-> "calculate_ev", ev |-> calculate_ev(jackpot, o, c, s)] :
        o \in SigOdds, c \in SigTicketCosts, s \in SigSecondary}
    \cup {[src |-> "raw", ev |-> e] : e \in RawEVResults}

SignalInputs ==
    {[game_id |-> g, current_jackpot |-> j, ev_src |-> e.src, ev_result |-> e.ev,
      rollover_count |-> rc, time_to_draw_minutes |-> ttd,
      jackpot_threshold |-> jt, min_threshold |-> mt,
      rollover_threshold |-> rt, previous_jackpot |-> pj] :
        g \in SigGames, j \in SigJackpots, e \in UNION {EVResultsFor(jj) : jj \in SigJackpots},
        rc \in SigRollovers, ttd \in SigTimes, jt \in SigJackpotThresholds,
        mt \in SigMinThresholds, rt \in SigRolloverThresholds, pj \in SigPrevious}

NoOut ==
    [has_signal |-> FALSE, signal_type |-> "None", confidence |-> "None",
     criteria_met |-> {}, buy_score |-> 0, jackpot_threshold |-> 0]

InitSignal ==
    /\ state = [i \in Inst |-> EmptyState]
    /\ file = FileAbsent
    /\ now = 0
    /\ trace = << >>
    /\ call = NoCall
    /\ pc = [i \in Inst |-> "idle"]
    /\ alerts = {}
    /\ world = World0
    /\ cyc = NoCycle
    /\ ev = NoEV
    /\ ext = NoExt
    /\ \E in \in SignalInputs : sig = [made |-> FALSE, in |-> in, out |-> NoOut]

EvaluateSignal ==
    /\ ~sig.made
    /\ sig' = [sig EXCEPT !.made = TRUE, !.out = calculate_buy_signal(sig.in)]
    /\ UNCHANGED <<state, file, now, trace, call, pc, alerts, world, cyc, ev, ext>>

NextSignal == EvaluateSignal

SpecSignal == InitSignal /\ [][NextSignal]_vars

----------------------------------------------------------------------------
(* LotteryAssistant.check_jackpots: one check cycle over the enabled games. *)

\* check cycles in one behaviour
MaxCycles == 2

\* check_threshold calls made on the tracker before the first cycle
MaxCycleOps == 2

game_order ==
    <<"lucky_day_lotto_midday", "lucky_day_lotto_evening", "powerball",
      "mega_millions">>

\* self.enabled_games of the deployment
enabled_games == {"lucky_day_lotto_midday", "lucky_day_lotto_evening"}

\* what the monitor returns for a game: None, or jackpot data (its 'jackpot')
CycleJackpots == {None, 600000}

\* game_config.get('odds', 1), in thousands; 0 is a config with "odds": 0
CycleOdds == {0, 100, 1222}

\* game_config.get('ticket_cost', 1.0), in cents
CycleTicketCost == 100

\* minutes to the next draw when a game is processed
CycleTimeToDraw == 30

\* observations given to the tracker before the first cycle
CycleObservations(g) ==
    IF g = "lucky_day_lotto_midday" THEN {400000, 600000} ELSE {600000}

\* the parameters check_threshold declares beside game_id and current_jackpot
check_threshold_parameters == {"min_threshold", "threshold_operator"}

\* the keywords check_jackpots passes to it (lines 347-349)
check_threshold_keywords == {"min_threshold", "step_increment", "threshold_operator"}

\* a call with a keyword the function does not declare raises TypeError
call_raises_TypeError(keywords, parameters) == ~(keywords \subseteq parameters)

\* the loop body treats the absence of data as a game with data
has_jackpot_data_assumed(jackpot_data) == TRUE

\* line 256: if jackpot_data
has_jackpot_data(jackpot_data) == ~IsNone(jackpot_data)

\* calculate_ev divides by odds (ev_calculator.py line 48): odds = 0 raises
\* ZeroDivisionError
calculate_ev_raises(odds) == odds = 0

\* EVCalculator.should_buy with EV_THRESHOLD -0.20
should_buy(ev_result) == RGe(ev_result.net_ev, Rat(EvThresholdCents, 1))

\* lines 298-304: the buy-signal flags of the game's state
track_buy_signal(gs, has_signal, t) ==
    IF has_signal
    THEN [gs EXCEPT !.active_buy_signal = TRUE,
                    !.buy_signal_last_seen = t,
                    !.buy_signal_reminder_sent = FALSE]
    ELSE [gs EXCEPT !.active_buy_signal = FALSE]

Notice(game_id, kind) == [game_id |-> game_id, kind |-> kind]

\* lines 255-406: the loop body for game_id, on the cycle so far
\*   c.games the tracker's state, c.file the state file, c.t the clock,
\*   c.sent the notifications sent, c.results the results dict,
\*   c.raised whether an exception has left the loop, c.error which one and
\*   c.failed in which game
\*   c.scored the rollover_count given to calculate_buy_signal per game, with
\*   the count the tracker derives from the cycle's observation
\* odds is in thousands, so calculate_ev gets the jackpot in thousands:
\* jackpot / odds is the same
process_game(c, game_id, jackpot_data, odds, should_send) ==
    IF ~has_jackpot_data(jackpot_data)
    THEN [c EXCEPT !.results = @ \cup {[game_id |-> game_id, data |-> FALSE]}]
    ELSE IF calculate_ev_raises(odds)
    THEN [c EXCEPT !.raised = TRUE, !.error = "ZeroDivisionError",
                   !.failed = game_id]
    ELSE LET current_jackpot == jackpot_data
             ev_result == calculate_ev(current_jackpot \div 1000, odds,
                                       CycleTicketCost, 0)
             s0 == get_game_state(c.games, game_id)
             rollover_count == s0[game_id].rollover_count
             buy_signal ==
                 calculate_buy_signal(
                     [game_id |-> game_id, current_jackpot |-> current_jackpot,
                      ev_result |-> ev_result, rollover_count |-> rollover_count,
                      time_to_draw_minutes |-> CycleTimeToDraw,
                      jackpot_threshold |-> 0,
                      min_threshold |-> min_threshold_of(game_id),
                      rollover_threshold |-> 0, previous_jackpot |-> None])
             s1 == [s0 EXCEPT ![game_id] =
                        track_buy_signal(@, buy_signal.has_signal, c.t)]
             sent1 == IF should_send
                      THEN c.sent \cup {Notice(game_id, "status")} ELSE c.sent
             derived == update_rollover(s0[game_id], game_id, current_jackpot,
                                        c.t).rollover_count
             c1 == [c EXCEPT !.games = s1, !.file = save_state(s1),
                             !.t = c.t + 1, !.sent = sent1,
                             !.scored = @ \cup {[game_id |-> game_id,
                                                  rollover_count |-> rollover_count,
                                                  derived |-> derived]}]
         IN  IF call_raises_TypeError(check_threshold_keywords,
                                      check_threshold_parameters)
             THEN [c1 EXCEPT !.raised = TRUE, !.error = "TypeError",
                             !.failed = game_id]
             ELSE LET r == check_threshold(s1[game_id], game_id, current_jackpot,
                                           min_threshold_of(game_id), c1.t)
                      s2 == [s1 EXCEPT ![game_id] = r.gs]
                      sent2 ==
                          sent1
                          \cup (IF r.alert # << >> /\ should_send
                                THEN {Notice(game_id, "threshold_alert")} ELSE {})
                          \cup (IF should_send
                                   /\ (buy_signal.has_signal \/ should_buy(ev_result))
                                THEN {Notice(game_id, "buy_signal")} ELSE {})
                  IN  [c1 EXCEPT !.games = s2,
                                 !.file = IF r.save THEN save_state(s2) ELSE @,
                                 !.t = c1.t + 1,
                                 !.sent = sent2,
                                 !.results = @ \cup {[game_id |-> game_id,
                                                       data |-> TRUE]}]

\* lines 251-253: the loop from game_order[k] on; an exception ends it
RECURSIVE run_games(_, _, _, _, _)
run_games(c, k, jackpots, odds, should_send) ==
    IF k > Len(game_order) \/ c.raised
    THEN c
    ELSE LET game_id == game_order[k]
         IN  IF game_id \notin enabled_games
             THEN run_games(c, k + 1, jackpots, odds, should_send)
             ELSE run_games(process_game(c, game_id, jackpots[game_id],
                                         odds[game_id], should_send),
                            k + 1, jackpots, odds, should_send)

\* a check_threshold call on the tracker, before the first cycle: the state
\* the cycles start from
TrackerCall ==
    \E game_id \in enabled_games : \E current_jackpot \in CycleObservations(game_id) :
        /\ ~cyc.made
        /\ Len(trace) < MaxCycleOps
        /\ DoCheckThreshold("p1", game_id, current_jackpot)
        /\ UNCHANGED <<pc, world, cyc, sig, ev, ext>>

\* one check_jackpots() call: the monitor's jackpots, then the loop
CheckJackpots ==
    /\ cyc.n < MaxCycles
    /\ \E jackpots \in [enabled_games -> CycleJackpots] :
       \E odds \in [enabled_games -> CycleOdds] : \E should_send \in BOOLEAN :
        \E c \in {run_games([games |-> state["p1"], file |-> file, t |-> now,
                            sent |-> {}, results |-> {}, raised |-> FALSE,
                            error |-> "none", failed |-> "none", scored |-> {}],
                           1, jackpots, odds, should_send)} :
            /\ state' = [state EXCEPT !["p1"] = c.games]
            /\ file' = c.file
            /\ now' = c.t
            /\ cyc' = [made |-> TRUE, n |-> cyc.n + 1, jackpots |-> jackpots,
                       before |-> state["p1"], after |-> c.games,
                       file_before |-> file, file_after |-> c.file,
                       sent |-> c.sent, results |-> c.results,
                       raised |-> c.raised, error |-> c.error,
                       failed |-> c.failed, odds |-> odds, scored |-> c.scored]
            /\ UNCHANGED <<trace, call, pc, alerts, world, sig, ev, ext>>

NextCycle == TrackerCall \/ CheckJackpots

SpecCycle == InitTracker /\ [][NextCycle]_vars

----------------------------------------------------------------------------
(* check_threshold with its threshold_operator keyword: the caller passes  *)
(* game_config.get('threshold_operator', '>='), and the jackpot can sit    *)
(* exactly on min_threshold.                                               *)

\* the values the docstring of check_threshold names for the keyword
ThresholdOperators == {">=", ">"}

\* jackpots below, on and above the game's min_threshold
OperatorObservations(g) ==
    CASE g = "lucky_day_lotto_midday" -> {400000, 500000, 600000}
      [] g = "powerball" -> {9000000, 10000000}
      [] OTHER -> {500}

\* check_threshold(game_id, current_jackpot, min_threshold=...,
\* threshold_operator=...): no line of check_threshold reads the keyword
CheckThresholdWithOperator ==
    \E game_id \in Games : \E current_jackpot \in OperatorObservations(game_id) :
    \E threshold_operator \in ThresholdOperators :
        /\ Len(trace) < MaxOperatorOps
        /\ SameGame(game_id)
        /\ DoCheckThreshold("p1", game_id, current_jackpot)
        /\ ext' = [ext EXCEPT !.threshold_operator = threshold_operator]
        /\ UNCHANGED <<pc, world, cyc, sig, ev>>

NextOperator == CheckThresholdWithOperator

SpecOperator == InitTracker /\ [][NextOperator]_vars

----------------------------------------------------------------------------
(* Two instances on one state file, each evaluating a game of its own.     *)
(* Each holds the whole state dict it loaded when it was constructed, and  *)
(* _save_state writes that whole dict.                                     *)

\* the game an instance evaluates
game_of(i) == IF i = "p1" THEN "lucky_day_lotto_midday" ELSE "powerball"

\* the instance's check_threshold call for its game
OwnGameCheck(i) ==
    \E current_jackpot \in Observations(game_of(i)) \ {0} :
        /\ pc[i] = "idle"
        /\ Len(trace) < MaxShareOps
        /\ DoCheckThreshold(i, game_of(i), current_jackpot)
        /\ pc' = [pc EXCEPT ![i] = "done"]
        /\ UNCHANGED <<world, cyc, sig, ev, ext>>

NextShare ==
    \/ \E i \in Inst : Construct(i)
    \/ \E i \in Inst : OwnGameCheck(i)
    \/ \E i \in Inst : Exit(i)

SpecShare == InitConc /\ [][NextShare]_vars

----------------------------------------------------------------------------
(* Writes of the state file that fail: open(state_file, 'w') raises (the   *)
(* file stays as it was) or json.dump raises after the open (the file is   *)
(* left cut off).                                                          *)

WriteOutcomes == {"written", "open_failed", "dump_failed"}

\* the file after _save_state's write of s over f
write_state(f, s, outcome) ==
    CASE outcome = "written" -> FileOf(s)
      [] outcome = "open_failed" -> f
      [] OTHER -> FileTruncated

\* lines 70-73: _save_state catches every Exception of the write, logs it
\* and returns; nothing is raised to check_threshold or its caller
save_state_raises(outcome) == FALSE

\* one whole check_threshold call whose write may fail
CheckThresholdWriteFails ==
    \E game_id \in Games : \E current_jackpot \in Observations(game_id) :
    \E outcome \in WriteOutcomes :
        /\ Len(trace) < MaxFailOps
        /\ SameGame(game_id)
        /\ CallEffect("p1", game_id, current_jackpot)
        /\ file' = IF call'.save
                   THEN write_state(file, state'["p1"], outcome)
                   ELSE file
        /\ ext' = [ext EXCEPT
                     !.write_failed = call'.save /\ outcome # "written",
                     !.raised = call'.save /\ save_state_raises(outcome)]
        /\ UNCHANGED <<pc, world, cyc, sig, ev>>

NextFail == CheckThresholdWriteFails

SpecFail == InitTracker /\ [][NextFail]_vars

----------------------------------------------------------------------------
(* The calculator on its own: one call with arguments from the games the   *)
(* repository configures and from configurations it accepts, then a second *)
(* call with the same odds, ticket_cost and secondary_prize_ev, at the     *)
(* break_even_jackpot the first call returned or at a larger jackpot.      *)

\* jackpots in dollars
EVJackpots ==
    {0, 600000, 285000000, 1406641883, 1999999999, 2000000000}

\* 1000 is a small game; 292201338 Powerball; 302575350 Mega Millions;
\* 0 and -1000 are "odds" values a configuration file can hold
EVOdds == {-1000, 0, 1000, 292201338, 302575350}

\* ticket_cost in cents
EVTicketCosts == {-200, 0, 200, 500}

\* secondary_prize_ev in cents
EVSecondary == {0, 15}

EVInputs ==
    [jackpot : EVJackpots, odds : EVOdds, ticket_cost : EVTicketCosts,
     secondary_prize_ev : EVSecondary]

InitEV ==
    /\ state = [i \in Inst |-> EmptyState]
    /\ file = FileAbsent
    /\ now = 0
    /\ trace = << >>
    /\ call = NoCall
    /\ pc = [i \in Inst |-> "idle"]
    /\ alerts = {}
    /\ world = World0
    /\ cyc = NoCycle
    /\ sig = NoSignal
    /\ ext = NoExt
    /\ \E in \in EVInputs :
        ev = [made |-> FALSE, in |-> in, out |-> NoOutcome,
              again |-> "none", jackpot2 |-> None, out2 |-> NoOutcome]

\* ev_calc.calculate_ev(jackpot, odds, ticket_cost, secondary_prize_ev)
CalculateEV ==
    /\ ~ev.made
    /\ \E out \in {calculate_ev_float(FOfInt(ev.in.jackpot), ev.in.odds,
                                      FCents(ev.in.ticket_cost),
                                      FCents(ev.in.secondary_prize_ev))} :
        ev' = [ev EXCEPT !.made = TRUE, !.out = out]
    /\ UNCHANGED <<state, file, now, trace, call, pc, alerts, world, cyc, sig,
                   ext>>

\* calculate_ev again, at the break_even_jackpot the first call returned
CalculateAtBreakEven ==
    /\ ev.made
    /\ ev.again = "none"
    /\ ev.out.kind = "result"
    /\ \E out2 \in {calculate_ev_float(ev.out.break_even_jackpot, ev.in.odds,
                                       FCents(ev.in.ticket_cost),
                                       FCents(ev.in.secondary_prize_ev))} :
        ev' = [ev EXCEPT !.again = "break_even", !.out2 = out2]
    /\ UNCHANGED <<state, file, now, trace, call, pc, alerts, world, cyc, sig,
                   ext>>

\* calculate_ev again, at a larger jackpot
CalculateAtLarger ==
    /\ ev.made
    /\ ev.again = "none"
    /\ ev.out.kind = "result"
    /\ \E jackpot2 \in {j \in EVJackpots : j > ev.in.jackpot} :
       \E out2 \in {calculate_ev_float(FOfInt(jackpot2), ev.in.odds,
                                       FCents(ev.in.ticket_cost),
                                       FCents(ev.in.secondary_prize_ev))} :
        ev' = [ev EXCEPT !.again = "larger", !.jackpot2 = jackpot2,
                         !.out2 = out2]
    /\ UNCHANGED <<state, file, now, trace, call, pc, alerts, world, cyc, sig,
                   ext>>

NextEV == CalculateEV \/ CalculateAtBreakEven \/ CalculateAtLarger

SpecEV == InitEV /\ [][NextEV]_vars

----------------------------------------------------------------------------
(* Properties of the sequential tracker (Spec) *)

ObsOf(tr) == [k \in DOMAIN tr |-> tr[k].current_jackpot]

AlertedOf(tr) == [k \in DOMAIN tr |-> tr[k].alerted]

C1_Game == "lucky_day_lotto_midday"

C1_Observations == <<400000, 600000, 700000, 300000, 600000>>

C1_Ran ==
    /\ Len(trace) = 5
    /\ trace[1].game_id = C1_Game
    /\ ObsOf(trace) = C1_Observations

\* C1: with min_threshold = 500,000 and a fresh game state, the observations
\* 400k, 600k, 700k, 300k, 600k return exactly two alerts, on the first and on
\* the last 600k, and leave two thresholds_hit entries; and any call with a
\* configured threshold returns an alert (and appends one entry) exactly when
\* the observation is at or above min_threshold and last_threshold was 0.
C1_SingleFire ==
    /\ C1_Ran =>
          /\ min_threshold_of(C1_Game) = 500000
          /\ AlertedOf(trace) = <<FALSE, TRUE, FALSE, FALSE, TRUE>>
          /\ Len(state["p1"][C1_Game].thresholds_hit) = 2
    /\ (call.made /\ ~IsNone(call.min_threshold)) =>
          /\ (call.alert # << >>) <=>
                (/\ call.current_jackpot >= call.min_threshold
                 /\ call.pre.last_threshold = 0)
          /\ Len(call.post.thresholds_hit) =
                Len(call.pre.thresholds_hit) + (IF call.alert # << >> THEN 1 ELSE 0)

C1_Witness ==
    /\ C1_Ran
    /\ Cardinality(alerts) = 2
    /\ call.alert # << >>

PrevObservation == trace[Len(trace) - 1].current_jackpot

\* C2: with a configured min_threshold, last_threshold does not decrease
\* from one observation at or above min_threshold to the next such
\* observation; an observation below min_threshold leaves last_threshold = 0;
\* and an observation at or above min_threshold never takes last_threshold
\* from a positive value to 0.
C2_LastThresholdRun ==
    (call.made /\ ~IsNone(call.min_threshold)) =>
        /\ (/\ Len(trace) >= 2
            /\ PrevObservation >= call.min_threshold
            /\ call.current_jackpot >= call.min_threshold)
              => call.post.last_threshold >= call.pre.last_threshold
        /\ call.current_jackpot < call.min_threshold
              => call.post.last_threshold = 0
        /\ (call.current_jackpot >= call.min_threshold /\ call.pre.last_threshold > 0)
              => call.post.last_threshold > 0

\* an observation below the threshold that ended an alerted run, after a run
\* of two observations above it
C2_Witness ==
    /\ call.made
    /\ Len(trace) >= 3
    /\ trace[Len(trace) - 2].current_jackpot >= call.min_threshold
    /\ PrevObservation >= call.min_threshold
    /\ call.current_jackpot < call.min_threshold
    /\ call.pre.last_threshold > 0
    /\ call.post.last_threshold = 0

\* C3: for a game with rollover_increment > 0, after any check_threshold call
\* that leaves cycle_start_jackpot non-null, rollover_count is
\* floor((last_jackpot - cycle_start_jackpot) / rollover_increment), and >= 0.
C3_RolloverDerivable ==
    (/\ call.made
     /\ rollover_increments(call.game_id) > 0
     /\ ~IsNone(call.post.cycle_start_jackpot)) =>
        /\ call.post.rollover_count >= 0
        /\ call.post.rollover_count =
              (call.post.last_jackpot - call.post.cycle_start_jackpot)
                  \div rollover_increments(call.game_id)

\* the win-reset branch ran in the last call (it alone writes last_won_date)
ResetTaken == call.post.last_won_date = call.t

\* C4: for a game with reset ceiling >= 9,000,000 and last_jackpot =
\* 20,000,000, observing 9,000,000 sets rollover_count = 0 and
\* cycle_start_jackpot = 9,000,000; observing 15,000,000 records no win and,
\* when cycle_start_jackpot <= 15,000,000, keeps cycle_start_jackpot and sets
\* rollover_count = floor((15,000,000 - cycle_start_jackpot) / increment);
\* and the win-reset branch is taken exactly when last_jackpot > 0,
\* current < 0.5 * last_jackpot and current <= reset ceiling.
C4_ResetDetection ==
    (call.made /\ rollover_increments(call.game_id) > 0) =>
        /\ (/\ reset_thresholds(call.game_id) >= 9000000
            /\ call.pre.last_jackpot = 20000000) =>
              /\ call.current_jackpot = 9000000 =>
                    /\ call.post.rollover_count = 0
                    /\ call.post.cycle_start_jackpot = 9000000
              /\ call.current_jackpot = 15000000 =>
                    /\ ~ResetTaken
                    /\ (/\ ~IsNone(call.pre.cycle_start_jackpot)
                        /\ call.pre.cycle_start_jackpot <= 15000000) =>
                          /\ call.post.cycle_start_jackpot = call.pre.cycle_start_jackpot
                          /\ call.post.rollover_count =
                                (15000000 - call.pre.cycle_start_jackpot)
                                    \div rollover_increments(call.game_id)
        /\ ResetTaken <=>
              (/\ call.pre.last_jackpot > 0
               /\ 2 * call.current_jackpot < call.pre.last_jackpot
               /\ call.current_jackpot <= reset_thresholds(call.game_id))

\* the fields of the game's state that check_threshold may change
Tracked(gs) ==
    <<gs.last_jackpot, gs.previous_jackpot, gs.cycle_start_jackpot,
      gs.rollover_count, gs.last_threshold, gs.thresholds_hit>>

\* the state file holds what the instance's memory holds
Persisted(i) == file.kind = "json" /\ file.games = state[i]

\* C8: a check_threshold call that changed the in-memory game state has
\* written the state file before it returned, so the file holds that state.
C8_SavedOnEveryPath ==
    (call.made /\ Tracked(call.post) # Tracked(call.pre)) =>
        /\ call.save
        /\ Persisted(call.inst)

----------------------------------------------------------------------------
(* Properties of the crash and concurrency specifications *)

\* C9: after a crash during check_threshold or _save_state the file holds
\* the complete state last written before the call or the complete new
\* state, so a restart loads that state, thresholds_hit and last_threshold
\* included.
C9_CrashLeavesCompleteFile ==
    pc["p1"] = "down" =>
        /\ file \in {call.file_before, FileOf(state["p1"])}
        /\ load_state(file) \in {load_state(call.file_before), state["p1"]}

\* the thresholds_hit entries of the persisted game state written by alerts
\* of crossing c
PersistedHits(g, c) ==
    LET s == load_state(file)
        hits == IF g \in DOMAIN s THEN s[g].thresholds_hit ELSE << >>
    IN  {k \in DOMAIN hits :
            \E a \in alerts : /\ a.game_id = g
                              /\ a.t = hits[k].timestamp
                              /\ a.crossing = c}

\* C7: check cycles for one game are serialized, so one upward crossing of
\* min_threshold yields at most one alert and at most one thresholds_hit
\* entry in the persisted state, however the two processes interleave.
C7_OneAlertPerCrossing ==
    \A c \in 1..MaxCrossings :
        /\ Cardinality({a \in alerts : a.game_id = WorldGame /\ a.crossing = c}) <= 1
        /\ Cardinality(PersistedHits(WorldGame, c)) <= 1

----------------------------------------------------------------------------
(* Properties of the scorer (SpecSignal) *)

SigJackpotThreshold ==
    resolve_jackpot_threshold(sig.in.jackpot_threshold, sig.in.min_threshold)

\* C5: an EVResult that calculate_ev produced with net_ev > 0 gets
\* has_signal = TRUE, whatever the current jackpot, the rollover count, the
\* time to the draw (or none) and the jackpot and rollover thresholds.
C5_PositiveEVForcesSignal ==
    (/\ sig.made
     /\ sig.in.ev_src = "calculate_ev"
     /\ RGt(sig.in.ev_result.net_ev, Rat(0, 1)))
        => sig.out.has_signal

\* positive EV from calculate_ev with all four criteria configured and none
\* but the EV criterion met
C5_Witness ==
    /\ sig.made
    /\ sig.in.ev_src = "calculate_ev"
    /\ RGt(sig.in.ev_result.net_ev, Rat(0, 1))
    /\ configured(SigJackpotThreshold)
    /\ sig.in.current_jackpot < SigJackpotThreshold
    /\ configured(sig.in.rollover_threshold)
    /\ sig.in.rollover_count < sig.in.rollover_threshold
    /\ ~IsNone(sig.in.time_to_draw_minutes)
    /\ sig.in.time_to_draw_minutes > DrawWindowHours * 60
    /\ sig.out.criteria_met = {"ev"}
    /\ sig.out.has_signal

\* C6: with ev_percentage below the suppression threshold (-50%) and no
\* exceptional event (jackpot < 2 * jackpot_threshold where a threshold is
\* resolved, and rollover_count < 20), has_signal is FALSE however many of
\* the jackpot, rollover and draw-window criteria are met.
C6_SuppressionOverridesCriteria ==
    (/\ sig.made
     /\ RLt(ev_get_ev_percentage(sig.in.ev_result), Rat(EvSuppressionPct, 1))
     /\ IsNone(SigJackpotThreshold)
            \/ sig.in.current_jackpot < 2 * SigJackpotThreshold
     /\ sig.in.rollover_count < 20)
        => ~sig.out.has_signal

\* ev_percentage = -60 with the jackpot, rollover and draw-window criteria
\* all met and nothing exceptional
C6_Witness ==
    /\ sig.made
    /\ sig.in.ev_result = RawEV(-60, AllKeys)
    /\ sig.in.current_jackpot < 2 * SigJackpotThreshold
    /\ sig.in.rollover_count < 20
    /\ sig.out.criteria_met = {"jackpot", "rollover", "draw_window"}
    /\ ~sig.out.has_signal

----------------------------------------------------------------------------
(* Properties of the check cycle (SpecCycle) *)

\* the game's entry in a games dict: <<entry>>, or << >> when it has none
GameEntry(s, game_id) == IF game_id \in DOMAIN s THEN <<s[game_id]>> ELSE << >>

NoDataGames == {g \in enabled_games : IsNone(cyc.jackpots[g])}

\* C10: a game the jackpot source supplied no data for in a cycle has, after
\* check_jackpots, the state it had before (every field of its entry, or no
\* entry as before), so no zero jackpot and no reset was recorded for it;
\* the state file holds for it what it held or that unchanged state; and no
\* notification of the cycle is about it.
C10_NoDataLeavesGameAlone ==
    cyc.made =>
        \A g \in NoDataGames :
            /\ GameEntry(cyc.after, g) = GameEntry(cyc.before, g)
            /\ GameEntry(load_state(cyc.file_after), g) \in
                  {GameEntry(load_state(cyc.file_before), g), GameEntry(cyc.before, g)}
            /\ \A m \in cyc.sent : m.game_id # g

\* a cycle without data for a game that has an alerted jackpot and an active
\* buy signal on record, in which the other game was processed and notified
C10_Witness ==
    /\ cyc.made
    /\ \E g \in NoDataGames :
          /\ g \in DOMAIN cyc.before
          /\ cyc.before[g].last_jackpot > 0
          /\ cyc.before[g].thresholds_hit # << >>
          /\ cyc.before[g].active_buy_signal
          /\ cyc.after[g] = cyc.before[g]
    /\ cyc.sent # {}
    /\ cyc.after # cyc.before

\* the games of the cycle the source had data for
DataGames == enabled_games \ NoDataGames

\* the games the loop body ran to its end for
EvaluatedGames == {r.game_id : r \in {x \in cyc.results : x.data}}

\* C11: when evaluating one game of a cycle fails, the failure stays inside
\* check_jackpots and every other game with data is still evaluated to the
\* end of the loop body.
C11_FailureSkipsOneGame ==
    (cyc.made /\ cyc.error # "none") =>
        /\ ~cyc.raised
        /\ \A g \in DataGames \ {cyc.failed} : g \in EvaluatedGames

\* C12: the rollover_count check_jackpots gives to calculate_buy_signal for a
\* game is the count the tracker derives from the cycle's observation.
C12_TrackerUpdateBeforeScoring ==
    cyc.made => \A s \in cyc.scored : s.rollover_count = s.derived

\* the float x lies strictly between lo/d and hi/d
FBetween(x, lo, hi, d) == FLt(FLit(lo, d), x) /\ FLt(x, FLit(hi, d))

\* the first call was calculate_ev(jackpot, odds, ticket_cost / 100,
\* secondary_prize_ev / 100) and returned a dictionary
EVCallOf(jackpot, odds, ticket_cost, secondary_prize_ev) ==
    /\ ev.made
    /\ ev.in = [jackpot |-> jackpot, odds |-> odds, ticket_cost |-> ticket_cost,
                secondary_prize_ev |-> secondary_prize_ev]
    /\ ev.out.kind = "result"

\* the dictionary of the first call has each value the formula for it gives,
\* computed in floats from the arguments and from the values before it
EVFormulasHold ==
    (ev.made /\ ev.out.kind = "result") =>
        LET out == ev.out
            keep == FSub(FOfInt(1), FLit(37, 100))
        IN  /\ out.after_tax_jackpot =
                  FMul(FMul(FOfInt(ev.in.jackpot), keep), FLit(61, 100))
            /\ out.primary_ev = FDiv(out.after_tax_jackpot, FOfInt(ev.in.odds))
            /\ out.total_ev = FAdd(out.primary_ev, out.secondary_ev)
            /\ out.net_ev = FSub(out.total_ev, FCents(ev.in.ticket_cost))
            /\ ev.in.ticket_cost > 0 =>
                  out.ev_percentage =
                      FMul(FDiv(out.net_ev, FCents(ev.in.ticket_cost)), FOfInt(100))
            /\ out.is_positive_ev = FGt0(out.net_ev)

\* jackpot 285,000,000, odds 302,575,350, ticket_cost 5.0, secondary 0.15:
\* after_tax_jackpot 109,525,500, net_ev -4.488 and ev_percentage -89.76 to
\* the digits given, not positive
EVMegaMillionsExample ==
    EVCallOf(285000000, 302575350, 500, 15) =>
        /\ ev.out.after_tax_jackpot = FOfInt(109525500)
        /\ FBetween(ev.out.net_ev, -44885, -44875, 10000)
        /\ FBetween(ev.out.ev_percentage, -89765, -89755, 1000)
        /\ ~ev.out.is_positive_ev

EVValidCall ==
    /\ ev.made
    /\ ev.in.odds > 0
    /\ ev.in.ticket_cost > 0
    /\ ev.out.kind = "result"

\* C14: for valid odds and ticket_cost, calculate_ev at the
\* break_even_jackpot a call reported returns net_ev = 0 within 1e-9 and
\* is_positive_ev false, and calculate_ev at a jackpot above the reported
\* break_even_jackpot returns is_positive_ev true.
C14_BreakEvenRoundTrip ==
    /\ (EVValidCall /\ ev.again = "break_even") =>
          /\ FBetween(ev.out2.net_ev, -1, 1, 1000000000)
          /\ ~ev.out2.is_positive_ev
    /\ (EVValidCall /\ FLt(ev.out.break_even_jackpot, FOfInt(ev.in.jackpot))) =>
          ev.out.is_positive_ev

\* C15: with odds, ticket_cost and secondary_prize_ev fixed and odds > 0,
\* calculate_ev's net_ev at a jackpot j1 is strictly below its net_ev at a
\* larger jackpot j2 (jackpots in whole dollars).
C15_NetEVIncreasing ==
    (ev.made /\ ev.again = "larger" /\ ev.in.odds > 0) =>
        /\ ev.in.jackpot < ev.jackpot2
        /\ FLt(ev.out.net_ev, ev.out2.net_ev)

\* two jackpots one dollar apart at Mega Millions odds, the larger with the
\* larger net_ev
C15_Witness ==
    /\ ev.made
    /\ ev.again = "larger"
    /\ ev.in.odds = 302575350
    /\ ev.in.jackpot = 1999999999
    /\ ev.jackpot2 = 2000000000
    /\ FLt(ev.out.net_ev, ev.out2.net_ev)

\* C16: calculate_ev called with odds <= 0 or ticket_cost <= 0 ends in an
\* InvalidConfig error: it returns no dictionary (so no ev_percentage for a
\* non-positive ticket_cost) and raises no ZeroDivisionError.
C16_InvalidConfigRejected ==
    (ev.made /\ (ev.in.odds <= 0 \/ ev.in.ticket_cost <= 0)) =>
        ev.out.kind = "InvalidConfig"

\* C18: a check_threshold call for a game whose min_threshold is None
\* returns no alert and leaves last_threshold, thresholds_hit and
\* last_alert_time as they were; it sets last_jackpot to the observation
\* and, when the observation differs from the prior last_jackpot, sets
\* previous_jackpot to that prior value.
C18_NoThresholdIsInert ==
    (call.made /\ IsNone(call.min_threshold)) =>
        /\ call.alert = << >>
        /\ \A k \in DOMAIN trace : ~trace[k].alerted
        /\ call.post.last_threshold = call.pre.last_threshold
        /\ call.post.thresholds_hit = call.pre.thresholds_hit
        /\ call.post.last_alert_time = call.pre.last_alert_time
        /\ call.post.last_jackpot = call.current_jackpot
        /\ call.current_jackpot # call.pre.last_jackpot =>
              call.post.previous_jackpot = call.pre.last_jackpot

\* a later observation of a game without min_threshold that differs from
\* the one before: 600 after 500
C18_Witness ==
    /\ call.made
    /\ IsNone(call.min_threshold)
    /\ Len(trace) >= 2
    /\ call.pre.last_jackpot = 500
    /\ call.current_jackpot = 600
    /\ call.post.last_jackpot = 600
    /\ call.post.previous_jackpot = 500

\* the comparison a threshold_operator stands for
meets_threshold(current_jackpot, min_threshold, threshold_operator) ==
    IF threshold_operator = ">"
    THEN current_jackpot > min_threshold
    ELSE current_jackpot >= min_threshold

\* C17: with last_threshold = 0, check_threshold alerts exactly when the
\* observation satisfies the call's threshold_operator against
\* min_threshold: on min_threshold itself '>' gives no alert and leaves
\* last_threshold 0, '>=' gives an alert and sets last_threshold to
\* min_threshold.
C17_OperatorDecidesAlert ==
    (call.made /\ ~IsNone(call.min_threshold) /\ call.pre.last_threshold = 0) =>
        IF meets_threshold(call.current_jackpot, call.min_threshold,
                           ext.threshold_operator)
        THEN /\ call.alert # << >>
             /\ call.post.last_threshold = call.min_threshold
        ELSE /\ call.alert = << >>
             /\ call.post.last_threshold = 0

\* C19: when an instance saves its game's update, the state file holds for
\* every other game what it held before that save, so that after two
\* instances have saved two different games the file contains both updates.
C19_SaveKeepsOtherGames ==
    (call.made /\ call.save) =>
        \A h \in Games \ {call.game_id} :
            GameEntry(load_state(file), h) =
                GameEntry(load_state(call.file_before), h)

\* C20: when the write of the state file fails during check_threshold, the
\* caller gets the failure (an exception, where a successful save gives
\* none) and the instance's in-memory state of the game keeps the update.
C20_WriteFailureSurfaced ==
    (call.made /\ ext.write_failed) =>
        /\ ext.raised
        /\ state[call.inst][call.game_id] = call.post

----------------------------------------------------------------------------
(* Properties of the scorer's classification (SpecSignal) *)

SigEvPercentage == ev_get_ev_percentage(sig.in.ev_result)

SigIsPositiveEV == ev_get_is_positive_ev(sig.in.ev_result)

\* the exceptional-event condition: current jackpot >= 2 * jackpot_threshold
\* (no such comparison for a null threshold), or rollover_count >= 20
SigExceptional ==
    \/ ~IsNone(SigJackpotThreshold)
          /\ sig.in.current_jackpot >= 2 * SigJackpotThreshold
    \/ sig.in.rollover_count >= 20

\* the criteria that are configured and met
SigCriteriaMet ==
    {c \in {"jackpot", "rollover", "ev", "draw_window"} :
        CASE c = "jackpot" ->
                 /\ ~IsNone(SigJackpotThreshold) /\ SigJackpotThreshold > 0
                 /\ sig.in.current_jackpot >= SigJackpotThreshold
          [] c = "rollover" ->
                 /\ sig.in.rollover_threshold > 0
                 /\ sig.in.rollover_count >= sig.in.rollover_threshold
          [] c = "ev" ->
                 /\ "net_ev" \in sig.in.ev_result.keys
                 /\ RGe(sig.in.ev_result.net_ev, Rat(EvThresholdCents, 1))
          [] c = "draw_window" ->
                 /\ ~IsNone(sig.in.time_to_draw_minutes)
                 /\ sig.in.time_to_draw_minutes <= DrawWindowHours * 60}

\* jackpot threshold > 0, rollover threshold > 0, EV threshold set (it always
\* is) and time_to_draw supplied
SigAllFourConfigured ==
    /\ ~IsNone(SigJackpotThreshold) /\ SigJackpotThreshold > 0
    /\ sig.in.rollover_threshold > 0
    /\ ~IsNone(sig.in.time_to_draw_minutes)

\* C21: for an EVResult that lacks any of the keys net_ev, ev_percentage and
\* is_positive_ev, calculate_buy_signal returns has_signal = FALSE, for every
\* current jackpot, rollover count, time to draw and threshold configuration,
\* jackpots of twice the jackpot threshold and rollover counts of 20 included.
C21_MissingKeysNoSignal ==
    (sig.made /\ sig.in.ev_result.keys # AllKeys) => ~sig.out.has_signal

\* C22: when a signal fires and the exceptional-event condition holds,
\* signal_type is 'event' and confidence is 'high' for a positive EV, 'medium'
\* for ev_percentage >= -20 and 'low' otherwise; when a signal fires and the
\* condition does not hold, signal_type is not 'event'.
C22_EventClassification ==
    (sig.made /\ sig.out.has_signal) =>
        IF SigExceptional
        THEN /\ sig.out.signal_type = "event"
             /\ sig.out.confidence =
                    (IF SigIsPositiveEV THEN "high"
                     ELSE IF RGe(SigEvPercentage, Rat(-20, 1)) THEN "medium"
                     ELSE "low")
        ELSE sig.out.signal_type # "event"

\* an exceptional event (20 rollovers) with ev_percentage -25: event, low
C22_Witness ==
    /\ sig.made
    /\ sig.out.has_signal
    /\ sig.in.rollover_count >= 20
    /\ sig.in.ev_result = RawEV(-25, AllKeys)
    /\ sig.out.signal_type = "event"
    /\ sig.out.confidence = "low"

\* C23: with EV not positive, ev_percentage at or above the acceptable
\* threshold (-30%) and no exceptional event, has_signal is TRUE exactly when
\* the met criteria number at least 2 if all four criteria are configured and
\* at least 1 otherwise; a criterion that is not configured is not counted.
C23_AdaptiveCount ==
    (/\ sig.made
     /\ ~SigIsPositiveEV
     /\ RGe(SigEvPercentage, Rat(EvAcceptablePct, 1))
     /\ ~SigExceptional)
        => /\ sig.out.criteria_met = SigCriteriaMet
           /\ sig.out.has_signal <=>
                  Cardinality(SigCriteriaMet) >=
                      (IF SigAllFourConfigured THEN 2 ELSE 1)

\* three criteria configured (no rollover threshold), the draw window alone
\* met: one met criterion is enough
C23_Witness ==
    /\ sig.made
    /\ ~SigIsPositiveEV
    /\ RGe(SigEvPercentage, Rat(EvAcceptablePct, 1))
    /\ ~SigExceptional
    /\ ~SigAllFourConfigured
    /\ sig.in.rollover_threshold = 0
    /\ sig.in.rollover_count > 0
    /\ SigCriteriaMet = {"draw_window"}
    /\ sig.out.has_signal

\* C24: with ev_percentage below the acceptable threshold (-30%) and not
\* below the suppression threshold (-50%), EV not positive and no exceptional
\* event, has_signal is TRUE only if at least 3 criteria are met: with fewer
\* it is FALSE even where the adaptive count is reached.
C24_MediocreEVNeedsThree ==
    (/\ sig.made
     /\ ~SigIsPositiveEV
     /\ RLt(SigEvPercentage, Rat(EvAcceptablePct, 1))
     /\ RGe(SigEvPercentage, Rat(EvSuppressionPct, 1))
     /\ ~SigExceptional)
        => (sig.out.has_signal => Cardinality(SigCriteriaMet) >= 3)

\* ev_percentage -35, two of four criteria met (the adaptive count), no signal
C24_Witness ==
    /\ sig.made
    /\ sig.in.ev_result = RawEV(-35, AllKeys)
    /\ ~SigExceptional
    /\ SigAllFourConfigured
    /\ Cardinality(SigCriteriaMet) = 2
    /\ ~sig.out.has_signal

\* the scores that go into buy_score, in tenths
SigEvScore ==
    IF RGt(SigEvPercentage, Rat(-20, 1)) THEN 10
    ELSE IF RGe(SigEvPercentage, Rat(-40, 1)) THEN 5
    ELSE 0

SigMomentumScore ==
    calculate_rollover_momentum(sig.in.game_id, sig.in.rollover_count)

\* the growth score that went into buy_score: what is left of it without
\* the EV and momentum terms
SigGrowthScoreFed == sig.out.buy_score - 6 * SigEvScore - 3 * SigMomentumScore

\* C25: a signal that fires with EV not positive and no exceptional event is
\* (aggressive, high) for buy_score >= 0.8, (aggressive, medium) for
\* 0.6 <= buy_score < 0.8, (basic, medium) for 0.4 <= buy_score < 0.6 and
\* (basic, low) below; buy_score is 0.6 * ev_score + 0.3 * momentum_score +
\* 0.1 * growth_score with ev_score 1.0 for ev_percentage > -20, 0.5 from -40
\* to -20 and 0.0 below -40; with EV positive and no exceptional event it is
\* (aggressive, high) whatever the score.
C25_ScoreClassification ==
    (sig.made /\ sig.out.has_signal /\ ~SigExceptional) =>
        /\ SigGrowthScoreFed =
               calculate_growth_velocity(
                   sig.in.current_jackpot,
                   IF Truthy(sig.in.previous_jackpot)
                   THEN sig.in.previous_jackpot ELSE sig.in.current_jackpot)
        /\ <<sig.out.signal_type, sig.out.confidence>> =
               (IF SigIsPositiveEV THEN <<"aggressive", "high">>
                ELSE IF sig.out.buy_score >= 80 THEN <<"aggressive", "high">>
                ELSE IF sig.out.buy_score >= 60 THEN <<"aggressive", "medium">>
                ELSE IF sig.out.buy_score >= 40 THEN <<"basic", "medium">>
                ELSE <<"basic", "low">>)

\* a signal of score 0.6 * 1.0 + 0.3 * 0.2 + 0.1 * 0.3 = 0.69
C25_Witness ==
    /\ sig.made
    /\ sig.out.has_signal
    /\ ~SigExceptional
    /\ ~SigIsPositiveEV
    /\ SigEvScore = 10
    /\ SigMomentumScore = 2
    /\ sig.out.buy_score = 69
    /\ sig.out.signal_type = "aggressive"
    /\ sig.out.confidence = "medium"

\* C26: the growth score that goes into buy_score is 1.0 when the jackpot
\* grew by more than 5% over previous_jackpot, 0.6 for more than 2%, 0.3 for
\* more than 0% and 0.0 for no growth (previous_jackpot > 0), and the neutral
\* 0.5 whenever previous_jackpot is undefined (not supplied, null or 0), for
\* every current jackpot.
C26_GrowthScore ==
    sig.made =>
        SigGrowthScoreFed =
            (IF IsNone(sig.in.previous_jackpot) \/ sig.in.previous_jackpot = 0
             THEN 5
             ELSE LET growth == (sig.in.current_jackpot - sig.in.previous_jackpot) * 100
                  IN  IF growth > 5 * sig.in.previous_jackpot THEN 10
                      ELSE IF growth > 2 * sig.in.previous_jackpot THEN 6
                      ELSE IF growth > 0 THEN 3
                      ELSE 0)

\* C30: for a game with no jackpot threshold configured (the resolved
\* threshold is 0 or null) the jackpot amount alone does not make the
\* situation exceptional: with rollover_count < 20 the signal type is never
\* 'event', and an ev_percentage below the suppression threshold always gives
\* has_signal = FALSE.
C30_NoThresholdNotExceptional ==
    (/\ sig.made
     /\ IsNone(SigJackpotThreshold) \/ SigJackpotThreshold = 0
     /\ sig.in.rollover_count < 20)
        => /\ sig.out.signal_type # "event"
           /\ RLt(SigEvPercentage, Rat(EvSuppressionPct, 1)) => ~sig.out.has_signal

----------------------------------------------------------------------------
(* Properties of the jackpot bookkeeping (Spec) *)

\* C27: after a sequence of two or more check_threshold observations of a
\* game, last_jackpot is the latest observation and previous_jackpot the
\* observation made immediately before it, also when the two are equal and
\* with or without a min_threshold.
C27_PreviousIsObservationBefore ==
    (call.made /\ Len(trace) >= 2) =>
        /\ call.post.last_jackpot = trace[Len(trace)].current_jackpot
        /\ call.post.previous_jackpot = trace[Len(trace) - 1].current_jackpot

----------------------------------------------------------------------------
(* Buy-signal reminders.  main.py runs check_jackpots (run_check) and      *)
(* check_buy_signal_reminders (run_buy_signal_reminder) each in a process  *)
(* of its own, which builds a LotteryAssistant, so loads the state file,   *)
(* and exits.  One game, one upcoming draw; ext holds the minutes to the   *)
(* draw, the runs made and whether an evaluation found no buy signal.      *)

\* runs of check_jackpots and check_buy_signal_reminders in one behaviour
MaxReminderRuns == 4

ReminderGame == "lucky_day_lotto_midday"

\* the game's config: odds in thousands, ticket_cost in cents
ReminderConfig == [odds |-> 1222, ticket_cost |-> 100, secondary_prize_ev |-> 0]

\* what the monitor shows for the game: with these odds it has a buy signal
\* at 1,100,000 (twice its min_threshold) and none at 600,000
ReminderJackpots == {600000, 1100000}

\* the minutes to the draw the runs fall on, around the reminder window
ReminderMinutes == 174 .. 186

\* line 437: 175 <= minutes_to_draw <= 185 and the flag is not set
reminder_due(minutes_to_draw, buy_signal_reminder_sent) ==
    /\ 175 <= minutes_to_draw
    /\ minutes_to_draw <= 185
    /\ ~buy_signal_reminder_sent

\* lines 421-495: the loop body of check_buy_signal_reminders for game_id,
\* on the game's state gs; sent: a reminder went out, evaluated: the buy
\* signal was recalculated, has_signal: what it came to
check_buy_signal_reminder(gs, game_id, minutes_to_draw, game_config) ==
    IF ~gs.active_buy_signal
    THEN [gs |-> gs, sent |-> FALSE, save |-> FALSE, evaluated |-> FALSE,
          has_signal |-> FALSE]
    ELSE IF ~reminder_due(minutes_to_draw, gs.buy_signal_reminder_sent)
    THEN [gs |-> gs, sent |-> FALSE, save |-> FALSE, evaluated |-> FALSE,
          has_signal |-> FALSE]
    ELSE LET current_jackpot == gs.last_jackpot
             ev_result == calculate_ev(current_jackpot \div 1000, game_config.odds,
                                       game_config.ticket_cost,
                                       game_config.secondary_prize_ev)
             rollover_count == IF game_id \in {"powerball", "mega_millions"}
                               THEN gs.rollover_count ELSE 0
             buy_signal ==
                 calculate_buy_signal(
                     [game_id |-> game_id, current_jackpot |-> current_jackpot,
                      ev_result |-> ev_result, rollover_count |-> rollover_count,
                      time_to_draw_minutes |-> minutes_to_draw,
                      jackpot_threshold |-> 0,
                      min_threshold |-> min_threshold_of(game_id),
                      rollover_threshold |-> 0, previous_jackpot |-> None])
         IN  IF buy_signal.has_signal
             THEN [gs |-> [gs EXCEPT !.buy_signal_reminder_sent = TRUE],
                   sent |-> TRUE, save |-> TRUE, evaluated |-> TRUE,
                   has_signal |-> TRUE]
             ELSE [gs |-> [gs EXCEPT !.active_buy_signal = FALSE,
                                     !.buy_signal_reminder_sent = FALSE],
                   sent |-> FALSE, save |-> TRUE, evaluated |-> TRUE,
                   has_signal |-> FALSE]

\* the state file a check_threshold call on a new tracker leaves
ReminderStartFile(current_jackpot) ==
    LET r == check_threshold(NewGameState, ReminderGame, current_jackpot,
                             min_threshold_of(ReminderGame), 0)
        s == [g \in {ReminderGame} |-> r.gs]
    IN  IF r.save THEN save_state(s) ELSE FileAbsent

InitReminder ==
    /\ state = [i \in Inst |-> EmptyState]
    /\ \E current_jackpot \in ReminderJackpots :
           file = ReminderStartFile(current_jackpot)
    /\ now = 1
    /\ trace = << >>
    /\ call = NoCall
    /\ pc = [i \in Inst |-> "new"]
    /\ alerts = {}
    /\ world = World0
    /\ cyc = NoCycle
    /\ sig = NoSignal
    /\ ev = NoEV
    /\ \E minutes_to_draw \in ReminderMinutes :
           ext = [minutes_to_draw |-> minutes_to_draw, runs |-> 0,
                  signal_lost |-> FALSE]

\* run_check(game_id): check_jackpots(game_id_filter=game_id) on the jackpot
\* the monitor shows
RunCheckJackpots(i) ==
    \E current_jackpot \in ReminderJackpots : \E should_send \in BOOLEAN :
    \E c \in {process_game([games |-> state[i], file |-> file, t |-> now,
                            sent |-> {}, results |-> {}, raised |-> FALSE,
                            error |-> "none", failed |-> "none", scored |-> {}],
                           ReminderGame, current_jackpot, ReminderConfig.odds,
                           should_send)} :
        /\ pc[i] = "idle"
        /\ ext.runs < MaxReminderRuns
        /\ state' = [state EXCEPT ![i] = c.games]
        /\ file' = c.file
        /\ now' = c.t
        /\ pc' = [pc EXCEPT ![i] = "done"]
        /\ ext' = [ext EXCEPT
                     !.runs = @ + 1,
                     !.signal_lost =
                         @ \/ ~c.games[ReminderGame].active_buy_signal]
        /\ UNCHANGED <<trace, call, alerts, world, cyc, sig, ev>>

\* run_buy_signal_reminder: check_buy_signal_reminders
RunReminders(i) ==
    \E s0 \in {get_game_state(state[i], ReminderGame)} :
    \E r \in {check_buy_signal_reminder(s0[ReminderGame], ReminderGame,
                                        ext.minutes_to_draw, ReminderConfig)} :
        /\ pc[i] = "idle"
        /\ ext.runs < MaxReminderRuns
        /\ state' = [state EXCEPT ![i] = [s0 EXCEPT ![ReminderGame] = r.gs]]
        /\ file' = IF r.save THEN save_state(state'[i]) ELSE file
        /\ alerts' = IF r.sent
                     THEN alerts \cup {[game_id |-> ReminderGame,
                                        kind |-> "reminder", inst |-> i,
                                        t |-> now]}
                     ELSE alerts
        /\ now' = now + 1
        /\ pc' = [pc EXCEPT ![i] = "done"]
        /\ ext' = [ext EXCEPT
                     !.runs = @ + 1,
                     !.signal_lost = @ \/ (r.evaluated /\ ~r.has_signal)]
        /\ UNCHANGED <<trace, call, world, cyc, sig, ev>>

\* a minute passes
MinutePasses ==
    /\ ext.minutes_to_draw - 1 \in ReminderMinutes
    /\ ext' = [ext EXCEPT !.minutes_to_draw = @ - 1]
    /\ UNCHANGED <<state, file, now, trace, call, pc, alerts, world, cyc, sig, ev>>

NextReminder ==
    \/ \E i \in Inst : Construct(i)
    \/ \E i \in Inst : RunCheckJackpots(i)
    \/ \E i \in Inst : RunReminders(i)
    \/ \E i \in Inst : Exit(i)
    \/ MinutePasses

SpecReminder == InitReminder /\ [][NextReminder]_vars

\* C28: for one game and one upcoming draw, however check_jackpots and
\* check_buy_signal_reminders interleave while the draw is 175 to 185 minutes
\* away and the buy signal stays active, at most one reminder is sent.
C28_OneReminderPerDraw ==
    ~ext.signal_lost =>
        Cardinality({a \in alerts : a.game_id = ReminderGame}) <= 1

----------------------------------------------------------------------------
(* The dashboard's refresh: /api/refresh requests and the background       *)
(* threads they start (_run_refresh_background).  pc is where a thread is: *)
(* none, started (Thread.start() was called), construct (it has set        *)
(* in_progress and builds its LotteryAssistant), check (check_jackpots is  *)
(* executing), cleanup, finally.  ext holds refresh_state, the requests    *)
(* made and when each thread's check_jackpots began; now is time.time()    *)
(* in seconds.                                                             *)

\* /api/refresh requests in one behaviour
MaxRefreshRequests == 3

\* the clock readings, five seconds apart
RefreshTimes == {100, 105, 110, 115, 120, 125, 130}

\* line 470: asyncio.wait_for(assistant.check_jackpots(), timeout=10.0)
RefreshTimeout == 10

\* line 521: a refresh that has run for more than 15 seconds counts as stuck
StuckAfter == 15

\* lines 39-43, with no request made and no check_jackpots begun
RefreshState0 ==
    [in_progress |-> FALSE, start_time |-> None, last_update |-> None,
     requests |-> 0, check_start |-> [i \in Inst |-> 0]]

InitRefresh ==
    /\ state = [i \in Inst |-> EmptyState]
    /\ file = FileAbsent
    /\ now = 100
    /\ trace = << >>
    /\ call = NoCall
    /\ pc = [i \in Inst |-> "none"]
    /\ alerts = {}
    /\ world = World0
    /\ cyc = NoCycle
    /\ sig = NoSignal
    /\ ev = NoEV
    /\ ext = RefreshState0

\* line 520
refresh_elapsed(start_time, t) == IF Truthy(start_time) THEN t - start_time ELSE 0

\* lines 517-528: the request is answered 'in_progress' and starts nothing
refresh_refused(refresh_state, t) ==
    /\ refresh_state.in_progress
    /\ ~(refresh_elapsed(refresh_state.start_time, t) > StuckAfter)

\* api_refresh, lines 511-538; thread i is the one it starts
ApiRefresh(i) ==
    /\ pc[i] = "none"
    /\ ext.requests < MaxRefreshRequests
    /\ IF refresh_refused(ext, now)
       THEN /\ ext' = [ext EXCEPT !.requests = @ + 1]
            /\ pc' = pc
       ELSE /\ ext' = [ext EXCEPT !.requests = @ + 1, !.in_progress = FALSE]
            /\ pc' = [pc EXCEPT ![i] = "started"]
    /\ UNCHANGED <<state, file, now, trace, call, alerts, world, cyc, sig, ev>>

\* _run_refresh_background, lines 450-454
BeginRefresh(i) ==
    /\ pc[i] = "started"
    /\ IF ext.in_progress
       THEN /\ pc' = [pc EXCEPT ![i] = "none"]
            /\ ext' = ext
       ELSE /\ pc' = [pc EXCEPT ![i] = "construct"]
            /\ ext' = [ext EXCEPT !.in_progress = TRUE, !.start_time = now]
    /\ UNCHANGED <<state, file, now, trace, call, alerts, world, cyc, sig, ev>>

\* lines 458-469: LotteryAssistant() loads the state file, and
\* check_jackpots begins
BeginCheckJackpots(i) ==
    /\ pc[i] = "construct"
    /\ state' = [state EXCEPT ![i] = load_state(file)]
    /\ pc' = [pc EXCEPT ![i] = "check"]
    /\ ext' = [ext EXCEPT !.check_start[i] = now]
    /\ UNCHANGED <<file, now, trace, call, alerts, world, cyc, sig, ev>>

\* lines 466-478: check_jackpots returns or raises, with what it did to the
\* tracker and the state file
EndCheckJackpots(i) ==
    \E jackpot \in CycleJackpots :
    \E c \in {run_games([games |-> state[i], file |-> file, t |-> now,
                         sent |-> {}, results |-> {}, raised |-> FALSE,
                         error |-> "none", failed |-> "none", scored |-> {}],
                        1, [g \in enabled_games |-> jackpot],
                        [g \in enabled_games |-> ReminderConfig.odds], FALSE)} :
        /\ pc[i] = "check"
        /\ state' = [state EXCEPT ![i] = c.games]
        /\ file' = c.file
        /\ pc' = [pc EXCEPT ![i] = "cleanup"]
        /\ UNCHANGED <<now, trace, call, alerts, world, cyc, sig, ev, ext>>

\* line 473: wait_for cancels check_jackpots after the timeout, while it
\* awaits the monitor
CheckJackpotsTimesOut(i) ==
    /\ pc[i] = "check"
    /\ now - ext.check_start[i] >= RefreshTimeout
    /\ pc' = [pc EXCEPT ![i] = "cleanup"]
    /\ UNCHANGED <<state, file, now, trace, call, alerts, world, cyc, sig, ev, ext>>

\* lines 480-501: cleanup, then last_update
RecordRefresh(i) ==
    /\ pc[i] = "cleanup"
    /\ ext' = [ext EXCEPT !.last_update = now]
    /\ pc' = [pc EXCEPT ![i] = "finally"]
    /\ UNCHANGED <<state, file, now, trace, call, alerts, world, cyc, sig, ev>>

\* lines 506-508
ClearInProgress(i) ==
    /\ pc[i] = "finally"
    /\ ext' = [ext EXCEPT !.in_progress = FALSE]
    /\ pc' = [pc EXCEPT ![i] = "none"]
    /\ UNCHANGED <<state, file, now, trace, call, alerts, world, cyc, sig, ev>>

\* five seconds pass; no check_jackpots outlasts its timeout
RefreshClockTicks ==
    /\ now + 5 \in RefreshTimes
    /\ \A i \in Inst :
           pc[i] = "check" => now + 5 - ext.check_start[i] <= RefreshTimeout
    /\ now' = now + 5
    /\ UNCHANGED <<state, file, trace, call, pc, alerts, world, cyc, sig, ev, ext>>

NextRefresh ==
    \/ \E i \in Inst : ApiRefresh(i)
    \/ \E i \in Inst : BeginRefresh(i)
    \/ \E i \in Inst : BeginCheckJackpots(i)
    \/ \E i \in Inst : EndCheckJackpots(i)
    \/ \E i \in Inst : CheckJackpotsTimesOut(i)
    \/ \E i \in Inst : RecordRefresh(i)
    \/ \E i \in Inst : ClearInProgress(i)
    \/ RefreshClockTicks

SpecRefresh == InitRefresh /\ [][NextRefresh]_vars

\* C29: however /api/refresh requests and background refresh threads
\* interleave, a refresh that runs for more than 15 seconds included, at
\* most one background refresh is executing check_jackpots at any time, and
\* refresh_state.in_progress is true whenever one is.
C29_OneRefreshAtATime ==
    /\ Cardinality({i \in Inst : pc[i] = "check"}) <= 1
    /\ (\E i \in Inst : pc[i] = "check") => ext.in_progress

============================================================================
